---------------------------- MODULE Spec2Model ----------------------------
(***************************************************************************)
(* A model of the optics sandbox: the virtual-image generator              *)
(* (src/src/virtual.ts), the ray tracer, the scene builder and the input   *)
(* handler (src/src/scene.ts), and the scene edits and the onChange        *)
(* callback of the lesson driver (src/unnamed/part_001).                   *)
(*                                                                         *)
(* Numbers.  The program computes in floating point.  The model computes   *)
(* exactly, on a lattice of SUB units per pixel, and draws its inputs      *)
(* from the configurations on which every quotient the code forms is a     *)
(* whole number of units: mirrors that are axis-aligned, at 45 degrees or  *)
(* degenerate (virtual images), axis-aligned mirrors and the eight ray     *)
(* directions at multiples of 45 degrees (ray tracer).  A unit vector is   *)
(* kept as the shortest lattice vector of its direction and the division   *)
(* by its squared length is done where the code multiplies by it twice.    *)
(* ExactR, ExactV and ExactT state that no division of a modelled run has  *)
(* a remainder.                                                            *)
(***************************************************************************)
EXTENDS Integers, Sequences, FiniteSets, TLC

VARIABLES
    \* reflectPointAcrossMirror applied twice (virtual.ts)
    rpoint, rmirror, rimage, rcount,
    \* calculateVirtualImages (virtual.ts): input, call stack, result, and
    \* the chains of the rooms createVirtualRoom was called for, in call order
    vscene, vbounds, vstack, vresult, vpc, vrooms,
    \* Lesson.run (part_001): lesson.scene, and Ray.trace over it (scene.ts)
    scene, tpc, ti, ray, currentOrigin, currentDirection, bounces, hitMirror,
    rays, result,
    \* the vec2 objects of one scene and of what trace and
    \* calculateVirtualImages allocate when called on it: heap[a] is the
    \* content of the vec2 at address a; hscene, hrays and himages hold
    \* addresses where the program's objects hold vec2 references
    heap, hscene, hbounds, hbefore, hrays, himages, hdone,
    \* Input.Handler (scene.ts): this.state, this.entities, this.player and
    \* whether this.batchTimer holds a timer; initialScene of Lesson.run
    dragState, selectedEntity, mousePosition, pendingActions, isMouseDown,
    batchTimer, handlerEntities, handlerPlayer, initialScene,
    \* history of the handler: how many actions were pushed, the serial
    \* numbers onChange received, those getAndClearActions returned,
    \* the batch the latest call of onChange received and pendingActions as
    \* it was at that call, and whether destroy cancelled a timer that was
    \* not rescheduled since; logging tells whether the run numbers its
    \* actions and keeps the first four
    enqueued, delivered, dropped, lastBatch, pendingAtOnChange, destroyed,
    logging

rvars == <<rpoint, rmirror, rimage, rcount>>
vvars == <<vscene, vbounds, vstack, vresult, vpc, vrooms>>
tvars == <<scene, tpc, ti, ray, currentOrigin, currentDirection, bounces,
           hitMirror, rays, result>>
hvars == <<heap, hscene, hbounds, hbefore, hrays, himages, hdone>>
ivars == <<dragState, selectedEntity, mousePosition, pendingActions,
           isMouseDown, batchTimer, handlerEntities, handlerPlayer,
           initialScene, enqueued, delivered, dropped, lastBatch,
           pendingAtOnChange, destroyed, logging>>
vars == <<rvars, vvars, tvars, hvars, ivars>>

----------------------------------------------------------------------------
(* Program constants and the lattice *)

SUB == 6
PLAYER_RADIUS == 12
ENTITY_SIZE == 8
MAX_BOUNCES == 10

\* a point given in pixels
P(x, y) == <<x * SUB, y * SUB>>

----------------------------------------------------------------------------
(* gl-matrix vec2 *)

vec2_sub(a, b) == <<a[1] - b[1], a[2] - b[2]>>
vec2_add(a, b) == <<a[1] + b[1], a[2] + b[2]>>
vec2_dot(a, b) == a[1] * b[1] + a[2] * b[2]
\* squared Euclidean distance: vec2.dist orders points as its square does
vec2_dist2(a, b) == vec2_dot(vec2_sub(a, b), vec2_sub(a, b))

Abs(n) == IF n < 0 THEN -n ELSE n

RECURSIVE GCD(_, _)
GCD(a, b) == IF b = 0 THEN a ELSE GCD(b, a % b)

\* vec2.normalize keeps the direction and sets the length to 1, and maps the
\* zero vector to itself.  The model keeps the direction as the shortest
\* lattice vector along it; its users divide by its squared length.
vec2_normalize(a) ==
    IF a = <<0, 0>> THEN a
    ELSE LET g == GCD(Abs(a[1]), Abs(a[2])) IN <<a[1] \div g, a[2] \div g>>

RECURSIVE SeqMap(_, _)
SeqMap(F(_), s) == IF s = <<>> THEN <<>> ELSE <<F(Head(s))>> \o SeqMap(F, Tail(s))

RECURSIVE SeqConcat(_)
SeqConcat(ss) == IF ss = <<>> THEN <<>> ELSE Head(ss) \o SeqConcat(Tail(ss))

Range(s) == {s[k] : k \in DOMAIN s}

----------------------------------------------------------------------------
(* Scene and SceneBuilder (scene.ts) *)

Scene_player(position) == [tag |-> "player", position |-> position]

Scene_entity(position, id) ==
    [tag |-> "entity",
     id |-> id,
     position |-> position,
     vertices |-> << <<position[1], position[2] - ENTITY_SIZE * SUB>>,
                     <<position[1] - ENTITY_SIZE * SUB, position[2] + ENTITY_SIZE * SUB>>,
                     <<position[1] + ENTITY_SIZE * SUB, position[2] + ENTITY_SIZE * SUB>> >>]

EntityId(n) == "entity_" \o ToString(n)
MirrorId(n) == "mirror_" \o ToString(n)

SceneBuilder_make == [entities |-> <<>>, mirrors |-> <<>>]

SceneBuilder_addPlayer(current, position) ==
    [f \in (DOMAIN current) \cup {"player"} |->
        IF f = "player" THEN Scene_player(position) ELSE current[f]]

SceneBuilder_addEntity(current, position) ==
    [current EXCEPT !.entities =
        Append(@, Scene_entity(position, EntityId(Len(current.entities) + 1)))]

SceneBuilder_addMirror(current, start, end) ==
    [current EXCEPT !.mirrors =
        Append(@, [start |-> start, end |-> end,
                   id |-> MirrorId(Len(current.mirrors) + 1)])]

RECURSIVE AddEntities(_, _)
AddEntities(current, positions) ==
    IF positions = <<>> THEN current
    ELSE AddEntities(SceneBuilder_addEntity(current, Head(positions)), Tail(positions))

RECURSIVE AddMirrors(_, _)
AddMirrors(current, segments) ==
    IF segments = <<>> THEN current
    ELSE AddMirrors(SceneBuilder_addMirror(current, Head(segments)[1], Head(segments)[2]),
                    Tail(segments))

\* SceneBuilder.make().addPlayer(p).addEntity(..)...addMirror(..)...build()
Build(playerPos, entityPositions, mirrorSegments) ==
    AddMirrors(AddEntities(SceneBuilder_addPlayer(SceneBuilder_make, playerPos),
                           entityPositions),
               mirrorSegments)

singleMirror ==
    Build(P(400, 300), << P(350, 250) >>, << <<P(300, 200), P(300, 400)>> >>)

twoMirrors ==
    Build(P(400, 300), << P(375, 264), P(400, 250) >>,
          << <<P(300, 200), P(300, 400)>>, <<P(500, 200), P(500, 400)>> >>)

threeMirrors ==
    Build(P(400, 350), << P(375, 264), P(400, 250) >>,
          << <<P(300, 200), P(300, 400)>>, <<P(300, 200), P(500, 200)>>,
             <<P(500, 200), P(500, 400)>> >>)

----------------------------------------------------------------------------
(* Virtual (virtual.ts) *)

\* the slip of scaling the normal by the distance once instead of twice
reflectPointAcrossMirror_once(point, mirror) ==
    LET mirrorDir == vec2_normalize(vec2_sub(mirror.end, mirror.start))
        n2 == vec2_dot(mirrorDir, mirrorDir)
        normal == <<-mirrorDir[2], mirrorDir[1]>>
        toPoint == vec2_sub(point, mirror.start)
        distanceToMirror == vec2_dot(toPoint, normal)
    IN  IF n2 = 0 THEN point
        ELSE <<point[1] - (distanceToMirror * normal[1]) \div n2,
               point[2] - (distanceToMirror * normal[2]) \div n2>>

\* mirrorDir and normal have squared length n2, not 1: the code's unit normal
\* is normal/sqrt(n2) and its distanceToMirror is this one /sqrt(n2), so what
\* the code subtracts from the point is 2*distanceToMirror*normal / n2.
\* A degenerate mirror has normal (0, 0) and reflects every point to itself.
reflectPointAcrossMirror(point, mirror) ==
    LET mirrorDir == vec2_normalize(vec2_sub(mirror.end, mirror.start))
        n2 == vec2_dot(mirrorDir, mirrorDir)
        normal == <<-mirrorDir[2], mirrorDir[1]>>
        toPoint == vec2_sub(point, mirror.start)
        distanceToMirror == vec2_dot(toPoint, normal)
    IN  IF n2 = 0 THEN point
        ELSE <<point[1] - (2 * distanceToMirror * normal[1]) \div n2,
               point[2] - (2 * distanceToMirror * normal[2]) \div n2>>

\* the quotients of reflectPointAcrossMirror have no remainder
ExactReflection(point, mirror) ==
    LET mirrorDir == vec2_normalize(vec2_sub(mirror.end, mirror.start))
        n2 == vec2_dot(mirrorDir, mirrorDir)
        normal == <<-mirrorDir[2], mirrorDir[1]>>
        distanceToMirror == vec2_dot(vec2_sub(point, mirror.start), normal)
    IN  n2 # 0 => /\ (2 * distanceToMirror * normal[1]) % n2 = 0
                  /\ (2 * distanceToMirror * normal[2]) % n2 = 0

reflectMirrorAcrossMirror(mirror, reflectingMirror) ==
    [id |-> mirror.id,
     start |-> reflectPointAcrossMirror(mirror.start, reflectingMirror),
     end |-> reflectPointAcrossMirror(mirror.end, reflectingMirror)]

isPointInBounds(bounds, point) ==
    /\ point[1] >= -bounds[1] /\ point[1] <= bounds[1] * 2
    /\ point[2] >= -bounds[2] /\ point[2] <= bounds[2] * 2


VirtualImage(originalId, originalType, position, roomNumber, mirrorChain, reflectingMirror) ==
    [originalId |-> originalId,
     originalType |-> originalType,
     position |-> position,
     bounces |-> roomNumber,
     isVisible |-> TRUE,
     mirrorChain |-> Append(mirrorChain, reflectingMirror.id),
     virtualRoom |-> roomNumber]

\* a mirror image also carries mirrorData
VirtualMirrorImage(mirror, mirrorCenter, virtualMirror, roomNumber, mirrorChain, reflectingMirror) ==
    [originalId |-> mirror.id,
     originalType |-> "mirror",
     position |-> mirrorCenter,
     bounces |-> roomNumber,
     isVisible |-> TRUE,
     mirrorChain |-> Append(mirrorChain, reflectingMirror.id),
     virtualRoom |-> roomNumber,
     mirrorData |-> [start |-> virtualMirror.start, end |-> virtualMirror.end]]

\* the slip of leaving the reflecting mirror out of the mirrors it reflects
createVirtualRoom_mirrorImage_others(bounds, mirror, reflectingMirror, roomNumber, mirrorChain) ==
    LET virtualMirror == reflectMirrorAcrossMirror(mirror, reflectingMirror)
        sum == vec2_add(virtualMirror.start, virtualMirror.end)
        mirrorCenter == <<sum[1] \div 2, sum[2] \div 2>>
    IN  IF /\ mirror.id # reflectingMirror.id
           /\ \/ isPointInBounds(bounds, virtualMirror.start)
              \/ isPointInBounds(bounds, virtualMirror.end)
              \/ isPointInBounds(bounds, mirrorCenter)
        THEN << VirtualMirrorImage(mirror, mirrorCenter, virtualMirror, roomNumber,
                                   mirrorChain, reflectingMirror) >>
        ELSE <<>>

\* createVirtualRoom, lines 91-112: the image of one mirror of the room, if any
createVirtualRoom_mirrorImage(bounds, mirror, reflectingMirror, roomNumber, mirrorChain) ==
    LET virtualMirror == reflectMirrorAcrossMirror(mirror, reflectingMirror)
        sum == vec2_add(virtualMirror.start, virtualMirror.end)
        mirrorCenter == <<sum[1] \div 2, sum[2] \div 2>>
    IN  IF \/ isPointInBounds(bounds, virtualMirror.start)
           \/ isPointInBounds(bounds, virtualMirror.end)
           \/ isPointInBounds(bounds, mirrorCenter)
        THEN << VirtualMirrorImage(mirror, mirrorCenter, virtualMirror, roomNumber,
                                   mirrorChain, reflectingMirror) >>
        ELSE <<>>

\* the slip of emitting an entity image without the bounds test
createVirtualRoom_entityImage_unfiltered(bounds, entity, reflectingMirror, roomNumber, mirrorChain) ==
    LET virtualEntity == reflectPointAcrossMirror(entity.position, reflectingMirror)
    IN  << VirtualImage(entity.id, "entity", virtualEntity, roomNumber, mirrorChain,
                        reflectingMirror) >>

\* createVirtualRoom, lines 76-89: the image of one entity of the room, if any
createVirtualRoom_entityImage(bounds, entity, reflectingMirror, roomNumber, mirrorChain) ==
    LET virtualEntity == reflectPointAcrossMirror(entity.position, reflectingMirror)
    IN  IF isPointInBounds(bounds, virtualEntity)
        THEN << VirtualImage(entity.id, "entity", virtualEntity, roomNumber, mirrorChain,
                             reflectingMirror) >>
        ELSE <<>>

\* createVirtualRoom, lines 63-74: the image of the player, if any
createVirtualRoom_playerImage(bounds, player, reflectingMirror, roomNumber, mirrorChain) ==
    LET virtualPlayer == reflectPointAcrossMirror(player.position, reflectingMirror)
    IN  IF isPointInBounds(bounds, virtualPlayer)
        THEN << VirtualImage("player", "player", virtualPlayer, roomNumber, mirrorChain,
                             reflectingMirror) >>
        ELSE <<>>

\* the slip of emitting the room's mirrors before its entities
createVirtualRoom_mirrorsFirst(bounds, currentRoomState, reflectingMirror, roomNumber, mirrorChain) ==
    LET entityImage(entity) ==
            createVirtualRoom_entityImage(bounds, entity, reflectingMirror, roomNumber, mirrorChain)
        mirrorImage(mirror) ==
            createVirtualRoom_mirrorImage(bounds, mirror, reflectingMirror, roomNumber, mirrorChain)
    IN  createVirtualRoom_playerImage(bounds, currentRoomState.player, reflectingMirror,
                                      roomNumber, mirrorChain)
        \o SeqConcat(SeqMap(mirrorImage, currentRoomState.mirrors))
        \o SeqConcat(SeqMap(entityImage, currentRoomState.entities))

createVirtualRoom(bounds, currentRoomState, reflectingMirror, roomNumber, mirrorChain) ==
    LET entityImage(entity) ==
            createVirtualRoom_entityImage(bounds, entity, reflectingMirror, roomNumber, mirrorChain)
        mirrorImage(mirror) ==
            createVirtualRoom_mirrorImage(bounds, mirror, reflectingMirror, roomNumber, mirrorChain)
    IN  createVirtualRoom_playerImage(bounds, currentRoomState.player, reflectingMirror,
                                      roomNumber, mirrorChain)
        \o SeqConcat(SeqMap(entityImage, currentRoomState.entities))
        \o SeqConcat(SeqMap(mirrorImage, currentRoomState.mirrors))

\* calculateVirtualRoomsRecursive, lines 134-146
nextRoom(currentRoom, mirror) ==
    LET movePlayer == [currentRoom.player EXCEPT
                          !.position = reflectPointAcrossMirror(@, mirror)]
        moveEntity(entity) == [entity EXCEPT
                                  !.position = reflectPointAcrossMirror(@, mirror)]
        moveMirror(m) == reflectMirrorAcrossMirror(m, mirror)
    IN  [player |-> movePlayer,
         entities |-> SeqMap(moveEntity, currentRoom.entities),
         mirrors |-> SeqMap(moveMirror, currentRoom.mirrors)]

\* mirrorChain.includes(mirror.id)
includes(mirrorChain, id) == \E k \in DOMAIN mirrorChain : mirrorChain[k] = id

\* the slip of refusing only the mirror used last
chainBlocks_last(mirrorChain, mirror) ==
    mirrorChain # <<>> /\ mirrorChain[Len(mirrorChain)] = mirror.id

\* calculateVirtualRoomsRecursive, lines 127-129: the loop skips this mirror
chainBlocks(mirrorChain, mirror) == includes(mirrorChain, mirror.id)

\* the slip of numbering the nested rooms like their parent
nestedRoomNumber_same(roomNumber) == roomNumber

\* calculateVirtualRoomsRecursive, line 151
nestedRoomNumber(roomNumber) == roomNumber + 1

\* the slip of starting virtualImages with the room's own player
Frame_seeded(currentRoom, roomNumber, mirrorChain) ==
    [currentRoom |-> currentRoom, roomNumber |-> roomNumber,
     mirrorChain |-> mirrorChain, i |-> 1,
     virtualImages |-> << [originalId |-> "player", originalType |-> "player",
                           position |-> currentRoom.player.position,
                           bounces |-> roomNumber, isVisible |-> TRUE,
                           mirrorChain |-> mirrorChain, virtualRoom |-> roomNumber] >>]

\* one activation of calculateVirtualRoomsRecursive: its arguments, the
\* position i of its for loop in originalMirrors, and its local virtualImages
Frame(currentRoom, roomNumber, mirrorChain) ==
    [currentRoom |-> currentRoom, roomNumber |-> roomNumber,
     mirrorChain |-> mirrorChain, i |-> 1, virtualImages |-> <<>>]

Top == vstack[Len(vstack)]
originalMirrors == vscene.mirrors

\* calculateVirtualImages, lines 160-168: the outermost call
calculateVirtualImages ==
    /\ vpc = "idle"
    /\ vstack' = << Frame([player |-> vscene.player, entities |-> vscene.entities,
                           mirrors |-> vscene.mirrors], 1, <<>>) >>
    /\ vpc' = "running"
    /\ UNCHANGED <<vscene, vbounds, vresult, vrooms, rvars, tvars, hvars, ivars>>

\* lines 126-129: the mirror is in the chain, continue
SkipMirror ==
    /\ vpc = "running"
    /\ Top.i <= Len(originalMirrors)
    /\ chainBlocks(Top.mirrorChain, originalMirrors[Top.i])
    /\ vstack' = [vstack EXCEPT ![Len(vstack)].i = @ + 1]
    /\ UNCHANGED <<vscene, vbounds, vresult, vpc, vrooms, rvars, tvars, hvars, ivars>>

\* the slip of not looking behind a room that showed nothing within the bounds
EnterRoom_pruned ==
    /\ vpc = "running"
    /\ Top.i <= Len(originalMirrors)
    /\ ~chainBlocks(Top.mirrorChain, originalMirrors[Top.i])
    /\ LET mirror == originalMirrors[Top.i]
           roomImages == createVirtualRoom(vbounds, Top.currentRoom, mirror,
                                           Top.roomNumber, Top.mirrorChain)
       IN  vstack' = IF roomImages = <<>>
                     THEN [vstack EXCEPT ![Len(vstack)].i = @ + 1]
                     ELSE Append([vstack EXCEPT ![Len(vstack)].virtualImages = @ \o roomImages],
                                 Frame(nextRoom(Top.currentRoom, mirror),
                                       nestedRoomNumber(Top.roomNumber),
                                       Append(Top.mirrorChain, mirror.id)))
    /\ vrooms' = Append(vrooms, Append(Top.mirrorChain, originalMirrors[Top.i].id))
    /\ UNCHANGED <<vscene, vbounds, vresult, vpc, rvars, tvars, hvars, ivars>>

\* the slip of reflecting across the current room's copy of the mirror
EnterRoom_roomCopy ==
    /\ vpc = "running"
    /\ Top.i <= Len(originalMirrors)
    /\ ~chainBlocks(Top.mirrorChain, originalMirrors[Top.i])
    /\ LET mirror == Top.currentRoom.mirrors[Top.i]
           roomImages == createVirtualRoom(vbounds, Top.currentRoom, mirror,
                                           Top.roomNumber, Top.mirrorChain)
       IN  vstack' = Append([vstack EXCEPT ![Len(vstack)].virtualImages = @ \o roomImages],
                            Frame(nextRoom(Top.currentRoom, mirror),
                                  nestedRoomNumber(Top.roomNumber),
                                  Append(Top.mirrorChain, mirror.id)))
    /\ vrooms' = Append(vrooms, Append(Top.mirrorChain, originalMirrors[Top.i].id))
    /\ UNCHANGED <<vscene, vbounds, vresult, vpc, rvars, tvars, hvars, ivars>>

\* lines 131-153: emit the room's images and call for the nested rooms
EnterRoom ==
    /\ vpc = "running"
    /\ Top.i <= Len(originalMirrors)
    /\ ~chainBlocks(Top.mirrorChain, originalMirrors[Top.i])
    /\ LET mirror == originalMirrors[Top.i]
           roomImages == createVirtualRoom(vbounds, Top.currentRoom, mirror,
                                           Top.roomNumber, Top.mirrorChain)
       IN  vstack' = Append([vstack EXCEPT ![Len(vstack)].virtualImages = @ \o roomImages],
                            Frame(nextRoom(Top.currentRoom, mirror),
                                  nestedRoomNumber(Top.roomNumber),
                                  Append(Top.mirrorChain, mirror.id)))
    /\ vrooms' = Append(vrooms, Append(Top.mirrorChain, originalMirrors[Top.i].id))
    /\ UNCHANGED <<vscene, vbounds, vresult, vpc, rvars, tvars, hvars, ivars>>

\* lines 154-157: a nested call returns and its images are appended
ReturnNested ==
    /\ vpc = "running"
    /\ Top.i > Len(originalMirrors)
    /\ Len(vstack) > 1
    /\ LET caller == Len(vstack) - 1
       IN  vstack' = [SubSeq(vstack, 1, caller) EXCEPT
                         ![caller].virtualImages = @ \o Top.virtualImages,
                         ![caller].i = @ + 1]
    /\ UNCHANGED <<vscene, vbounds, vresult, vpc, vrooms, rvars, tvars, hvars, ivars>>

\* line 157 of the outermost call: calculateVirtualImages returns
ReturnImages ==
    /\ vpc = "running"
    /\ Top.i > Len(originalMirrors)
    /\ Len(vstack) = 1
    /\ vresult' = Top.virtualImages
    /\ vstack' = <<>>
    /\ vpc' = "done"
    /\ UNCHANGED <<vscene, vbounds, vrooms, rvars, tvars, hvars, ivars>>

----------------------------------------------------------------------------
(* Ray (scene.ts) *)

Sgn(n) == IF n > 0 THEN 1 ELSE IF n < 0 THEN -1 ELSE 0

\* null
None == [none |-> TRUE]
IsNone(x) == "none" \in DOMAIN x

\* Math.abs(cross1) < EPSILON and t < EPSILON: cross1 and t are whole numbers
\* of lattice units, so nothing non-zero is below EPSILON = 1e-6.
\* distance is t, in lengths of rayDirection; the hits of one ray share it.
rayLineIntersection(rayOrigin, rayDirection, lineStart, lineEnd) ==
    LET lineDir == vec2_sub(lineEnd, lineStart)
        rayToLineStart == vec2_sub(lineStart, rayOrigin)
        cross1 == rayDirection[1] * lineDir[2] - rayDirection[2] * lineDir[1]
        cross2 == rayToLineStart[1] * lineDir[2] - rayToLineStart[2] * lineDir[1]
        cross3 == rayToLineStart[1] * rayDirection[2] - rayToLineStart[2] * rayDirection[1]
        t == (Sgn(cross1) * cross2) \div Abs(cross1)
    IN  IF cross1 = 0 THEN None
        ELSE IF Sgn(cross2) * Sgn(cross1) <= 0 THEN None
        ELSE IF Sgn(cross3) * Sgn(cross1) < 0 \/ Abs(cross3) > Abs(cross1) THEN None
        ELSE [point |-> <<rayOrigin[1] + rayDirection[1] * t,
                          rayOrigin[2] + rayDirection[2] * t>>,
              distance |-> t,
              normal |-> vec2_normalize(<<-lineDir[2], lineDir[1]>>)]

\* the quotient t of rayLineIntersection has no remainder
ExactIntersection(rayOrigin, rayDirection, lineStart, lineEnd) ==
    LET lineDir == vec2_sub(lineEnd, lineStart)
        rayToLineStart == vec2_sub(lineStart, rayOrigin)
        cross1 == rayDirection[1] * lineDir[2] - rayDirection[2] * lineDir[1]
        cross2 == rayToLineStart[1] * lineDir[2] - rayToLineStart[2] * lineDir[1]
    IN  cross1 # 0 => Abs(cross2) % Abs(cross1) = 0

\* the whole part of the square root of n, for 0 <= n <= limit * limit
Sqrt(n, limit) == CHOOSE k \in 0..limit : k * k <= n /\ n < (k + 1) * (k + 1)

\* rayDirection has squared length n2, so the code's projLength is pd/sqrt(n2),
\* its distanceToCenter squared is (n2 * |toCenter|^2 - pd^2) / n2, its
\* halfChord is sqrt(h/n2) and its intersectionDistance (pd - sqrt(h))/sqrt(n2),
\* which is t = (pd - sqrt(h)) / n2 lengths of rayDirection.  Exact where h
\* is a square and n2 divides pd - sqrt(h), as for a ray along an axis whose
\* line goes through the centre; the whole part is taken elsewhere.
rayCircleIntersection(rayOrigin, rayDirection, center, radius) ==
    LET toCenter == vec2_sub(center, rayOrigin)
        n2 == vec2_dot(rayDirection, rayDirection)
        pd == vec2_dot(toCenter, rayDirection)
        h == n2 * radius * radius - n2 * vec2_dot(toCenter, toCenter) + pd * pd
        root == Sqrt(h, 2 * radius)
        t == (pd - root) \div n2
        intersection == <<rayOrigin[1] + rayDirection[1] * t,
                          rayOrigin[2] + rayDirection[2] * t>>
    IN  IF pd < 0 THEN None
        ELSE IF h < 0 THEN None
        ELSE IF pd <= root THEN None
        ELSE [point |-> intersection,
              distance |-> t,
              normal |-> vec2_normalize(vec2_sub(intersection, center))]

\* normal has squared length n2: the code's unit normal is normal/sqrt(n2)
reflect(direction, normal) ==
    LET n2 == vec2_dot(normal, normal)
        dot == vec2_dot(direction, normal)
    IN  <<direction[1] - (2 * dot * normal[1]) \div n2,
          direction[2] - (2 * dot * normal[2]) \div n2>>

RECURSIVE firstEdgeHit_nearest(_, _, _, _)
\* the slip of taking the nearest of the edges hit
firstEdgeHit_nearest(rayOrigin, rayDirection, vertices, i) ==
    IF i >= 3 THEN None
    ELSE LET edgeIntersection ==
                 rayLineIntersection(rayOrigin, rayDirection,
                                     vertices[i + 1], vertices[((i + 1) % 3) + 1])
             later == firstEdgeHit_nearest(rayOrigin, rayDirection, vertices, i + 1)
         IN  IF IsNone(edgeIntersection) THEN later
             ELSE IF IsNone(later) THEN edgeIntersection
             ELSE IF later.distance < edgeIntersection.distance THEN later
             ELSE edgeIntersection

RECURSIVE firstEdgeHit(_, _, _, _)
\* rayTriangleIntersection, lines 290-295: the first edge from i on with a hit
firstEdgeHit(rayOrigin, rayDirection, vertices, i) ==
    IF i >= 3 THEN None
    ELSE LET edgeIntersection ==
                 rayLineIntersection(rayOrigin, rayDirection,
                                     vertices[i + 1], vertices[((i + 1) % 3) + 1])
         IN  IF ~IsNone(edgeIntersection) THEN edgeIntersection
             ELSE firstEdgeHit(rayOrigin, rayDirection, vertices, i + 1)

rayTriangleIntersection(rayOrigin, rayDirection, vertices) ==
    LET edgeIntersection == firstEdgeHit(rayOrigin, rayDirection, vertices, 0)
        edge1 == vec2_sub(vertices[2], vertices[1])
        edge2 == vec2_sub(vertices[3], vertices[1])
        cross == edge1[1] * edge2[2] - edge1[2] * edge2[1]
        normal == IF cross > 0
                  THEN <<edge2[2] - edge1[2], edge1[1] - edge2[1]>>
                  ELSE <<edge1[2] - edge2[2], edge2[1] - edge1[1]>>
    IN  IF IsNone(edgeIntersection) THEN None
        ELSE [point |-> edgeIntersection.point,
              distance |-> edgeIntersection.distance,
              normal |-> vec2_normalize(normal)]

\* intersection.mirrorId = mirror.id, intersection.entityId = entity.id
Tagged(intersection, field, id) ==
    [f \in (DOMAIN intersection) \cup {field} |->
        IF f = field THEN id ELSE intersection[f]]

RECURSIVE nearestOf_lastWins(_, _)
\* the slip of <= for <: of the hits at the same distance the last one wins
nearestOf_lastWins(candidates, nearest) ==
    IF candidates = <<>> THEN nearest
    ELSE LET intersection == Head(candidates)
         IN  IF /\ ~IsNone(intersection)
                /\ (IsNone(nearest) \/ intersection.distance <= nearest.distance)
             THEN nearestOf_lastWins(Tail(candidates), intersection)
             ELSE nearestOf_lastWins(Tail(candidates), nearest)

RECURSIVE nearestOf(_, _)
\* the loops of findNearestIntersection over the candidates in the order they
\* are examined: a candidate replaces nearest when its distance is smaller
nearestOf(candidates, nearest) ==
    IF candidates = <<>> THEN nearest
    ELSE LET intersection == Head(candidates)
         IN  IF /\ ~IsNone(intersection)
                /\ (IsNone(nearest) \/ intersection.distance < nearest.distance)
             THEN nearestOf(Tail(candidates), intersection)
             ELSE nearestOf(Tail(candidates), nearest)

\* the mirrors, then the player's circle unless ignorePlayer, then the
\* entities
findNearestIntersection(rayOrigin, rayDirection, sc, ignorePlayer) ==
    LET mirrorHit(mirror) ==
            LET intersection == rayLineIntersection(rayOrigin, rayDirection,
                                                    mirror.start, mirror.end)
            IN  IF IsNone(intersection) THEN None
                ELSE Tagged(intersection, "mirrorId", mirror.id)
        playerIntersection ==
            IF ignorePlayer THEN <<>>
            ELSE << rayCircleIntersection(rayOrigin, rayDirection, sc.player.position,
                                          PLAYER_RADIUS * SUB) >>
        entityHit(entity) ==
            LET entityIntersection == rayTriangleIntersection(rayOrigin, rayDirection,
                                                              entity.vertices)
            IN  IF IsNone(entityIntersection) THEN None
                ELSE Tagged(entityIntersection, "entityId", entity.id)
    IN  nearestOf(SeqMap(mirrorHit, sc.mirrors) \o playerIntersection
                    \o SeqMap(entityHit, sc.entities),
                  None)

\* the slip of leaving out the argument: ignorePlayer defaults to false
traceRay_ignorePlayer_default == FALSE

\* traceRay, line 367: the argument ignorePlayer of findNearestIntersection
traceRay_ignorePlayer == TRUE

\* the slip of counting round trips instead of bounces
withinBounceLimit_pairs(n, maxBounces) == n \div 2 < maxBounces

\* the slip of testing bounces <= maxBounces
withinBounceLimit_inclusive(n, maxBounces) == n <= maxBounces

\* traceRay, line 366: the loop condition
withinBounceLimit(n, maxBounces) == n < maxBounces

\* the slip of accepting an entity the ray sees without a bounce
acceptsEntity_direct(didHitMirror, intersection) == "entityId" \in DOMAIN intersection

\* traceRay, line 382
acceptsEntity(didHitMirror, intersection) ==
    didHitMirror /\ "entityId" \in DOMAIN intersection

\* trace, lines 402-403: the directions of the fan that lie on the lattice,
\* angle = (i / 8) * 2 pi for i = 0..7, each as its shortest lattice vector
DIRECTIONS ==
    << <<1, 0>>, <<1, 1>>, <<0, 1>>, <<-1, 1>>,
       <<-1, 0>>, <<-1, -1>>, <<0, -1>>, <<1, -1>> >>

rayCount == Len(DIRECTIONS)

lastIntersection(r) == r.history[Len(r.history)]

RECURSIVE insertSorted(_, _, _)
\* r goes before the first ray of the sorted s that is farther from position
insertSorted(s, r, position) ==
    IF s = <<>> THEN <<r>>
    ELSE IF vec2_dist2(lastIntersection(r), position)
            < vec2_dist2(lastIntersection(Head(s)), position)
         THEN <<r>> \o s
         ELSE <<Head(s)>> \o insertSorted(Tail(s), r, position)

RECURSIVE sortByDistance(_, _)
\* Array.prototype.sort with the comparator of lines 413-417: stable, by the
\* distance of the ray's last point to position
sortByDistance(s, position) ==
    IF s = <<>> THEN <<>>
    ELSE insertSorted(sortByDistance(SubSeq(s, 1, Len(s) - 1), position),
                      s[Len(s)], position)

\* (sorted rays)[0]: undefined when there is none
Undefined == [undefined |-> TRUE]
IsUndefined(x) == "undefined" \in DOMAIN x

\* trace, lines 413-417
bestRayFor(accepted, entity) ==
    LET mine == SelectSeq(accepted, LAMBDA r : r.entityId = entity.id)
        sorted == sortByDistance(mine, entity.position)
    IN  IF sorted = <<>> THEN Undefined ELSE sorted[1]

\* the slip of leaving out .filter(Boolean)
selectRays_unfiltered(accepted, sc) ==
    LET best(entity) == bestRayFor(accepted, entity)
    IN  SeqMap(best, sc.entities)

\* trace, lines 412-418
selectRays(accepted, sc) ==
    LET best(entity) == bestRayFor(accepted, entity)
    IN  SelectSeq(SeqMap(best, sc.entities), LAMBDA r : ~IsUndefined(r))

----------------------------------------------------------------------------
(* Lesson (part_001): the pure scene edits *)

RECURSIVE findIndex(_, _, _)
\* scene.entities.findIndex(entity => entity.id === entityId), from k on; 0 is -1
findIndex(entities, entityId, k) ==
    IF k > Len(entities) THEN 0
    ELSE IF entities[k].id = entityId THEN k
    ELSE findIndex(entities, entityId, k + 1)

Lesson_moveEntity(sc, entityId, position) ==
    IF entityId = "player"
    THEN [sc EXCEPT !.player = [sc.player EXCEPT !.position = position]]
    ELSE LET entityIndex == findIndex(sc.entities, entityId, 1)
         IN  IF entityIndex # 0
             THEN [sc EXCEPT !.entities[entityIndex] =
                      Scene_entity(position, EntityId(Len(sc.entities) + 1))]
             ELSE sc

Lesson_addEntity(sc, position) ==
    [sc EXCEPT !.entities =
        Append(@, Scene_entity(position, EntityId(Len(sc.entities) + 1)))]

----------------------------------------------------------------------------
(* Lesson.run and Ray.trace as steps *)

MaxEntities == 3

\* where the model lets the mouse drop a dragged object
DropPositions == {P(450, 300), P(396, 100)}

\* the entity ids a MOVE_ENTITY can carry, one of them of no entity
MoveIds == {"player"} \cup {EntityId(n) : n \in 1..(MaxEntities + 2)}

\* handleAction, MOVE_ENTITY (lines 97-102); the derived rays are recomputed
MoveEntity ==
    /\ tpc \in {"dirty", "idle"}
    /\ \E entityId \in MoveIds, position \in DropPositions :
          scene' = Lesson_moveEntity(scene, entityId, position)
    /\ tpc' = "dirty"
    /\ rays' = <<>>
    /\ result' = <<>>
    /\ UNCHANGED <<ti, ray, currentOrigin, currentDirection, bounces, hitMirror,
                   rvars, vvars, hvars, ivars>>

\* handleAction, ADD_OBJECT (lines 103-109)
AddObject ==
    /\ tpc \in {"dirty", "idle"}
    /\ Len(scene.entities) < MaxEntities
    /\ scene' = Lesson_addEntity(scene, P(400, 250))
    /\ tpc' = "dirty"
    /\ rays' = <<>>
    /\ result' = <<>>
    /\ UNCHANGED <<ti, ray, currentOrigin, currentDirection, bounces, hitMirror,
                   rvars, vvars, hvars, ivars>>

\* processScene calls trace (part_001 line 24; scene.ts lines 397-401)
TraceBegin ==
    /\ tpc = "dirty"
    /\ tpc' = "cast"
    /\ ti' = 0
    /\ rays' = <<>>
    /\ result' = <<>>
    /\ UNCHANGED <<scene, ray, currentOrigin, currentDirection, bounces, hitMirror,
                   rvars, vvars, hvars, ivars>>

\* trace, lines 401-405, and traceRay, lines 355-364
CastRay ==
    /\ tpc = "cast"
    /\ ti < rayCount
    /\ LET origin == scene.player.position
           direction == DIRECTIONS[ti + 1]
       IN  /\ ray' = [origin |-> origin, direction |-> direction, history |-> <<origin>>]
           /\ currentOrigin' = origin
           /\ currentDirection' = direction
    /\ bounces' = 0
    /\ hitMirror' = FALSE
    /\ tpc' = "loop"
    /\ UNCHANGED <<scene, ti, rays, result, rvars, vvars, hvars, ivars>>

Intersection ==
    findNearestIntersection(currentOrigin, currentDirection, scene, traceRay_ignorePlayer)

\* traceRay returned null: trace goes on with the next direction
ReturnNull ==
    /\ tpc' = "cast"
    /\ ti' = ti + 1
    /\ UNCHANGED <<scene, rays, result, rvars, vvars, hvars, ivars>>

\* traceRay, line 366: the bounce limit ends the loop; line 390
BounceLimit ==
    /\ tpc = "loop"
    /\ ~withinBounceLimit(bounces, MAX_BOUNCES)
    /\ ReturnNull
    /\ UNCHANGED <<ray, currentOrigin, currentDirection, bounces, hitMirror>>

\* traceRay, lines 369-371: nothing is hit
NoIntersection ==
    /\ tpc = "loop"
    /\ withinBounceLimit(bounces, MAX_BOUNCES)
    /\ IsNone(Intersection)
    /\ ReturnNull
    /\ UNCHANGED <<ray, currentOrigin, currentDirection, bounces, hitMirror>>

\* traceRay, lines 373-380: a mirror is hit
HitMirror ==
    /\ tpc = "loop"
    /\ withinBounceLimit(bounces, MAX_BOUNCES)
    /\ ~IsNone(Intersection)
    /\ "mirrorId" \in DOMAIN Intersection
    /\ ray' = [ray EXCEPT !.history = Append(@, Intersection.point)]
    /\ hitMirror' = TRUE
    /\ currentOrigin' = Intersection.point
    /\ currentDirection' = reflect(currentDirection, Intersection.normal)
    /\ bounces' = bounces + 1
    /\ UNCHANGED <<scene, tpc, ti, rays, result, rvars, vvars, hvars, ivars>>

\* traceRay, lines 373 and 382-385, and trace, lines 406-408
HitEntityAccepted ==
    /\ tpc = "loop"
    /\ withinBounceLimit(bounces, MAX_BOUNCES)
    /\ ~IsNone(Intersection)
    /\ "mirrorId" \notin DOMAIN Intersection
    /\ acceptsEntity(hitMirror, Intersection)
    /\ LET returned == [origin |-> ray.origin, direction |-> ray.direction,
                        history |-> Append(ray.history, Intersection.point),
                        entityId |-> Intersection.entityId]
       IN  /\ ray' = returned
           /\ rays' = IF Len(returned.history) > 1 THEN Append(rays, returned) ELSE rays
    /\ tpc' = "cast"
    /\ ti' = ti + 1
    /\ UNCHANGED <<scene, currentOrigin, currentDirection, bounces, hitMirror, result,
                   rvars, vvars, hvars, ivars>>

\* traceRay, lines 373 and 386: an entity is hit before any mirror
HitEntityRejected ==
    /\ tpc = "loop"
    /\ withinBounceLimit(bounces, MAX_BOUNCES)
    /\ ~IsNone(Intersection)
    /\ "mirrorId" \notin DOMAIN Intersection
    /\ ~acceptsEntity(hitMirror, Intersection)
    /\ ray' = [ray EXCEPT !.history = Append(@, Intersection.point)]
    /\ ReturnNull
    /\ UNCHANGED <<currentOrigin, currentDirection, bounces, hitMirror>>

\* trace, lines 412-418: one ray for each entity; trace returns and the
\* locals of its last traceRay are gone
SelectRays ==
    /\ tpc = "cast"
    /\ ti = rayCount
    /\ result' = selectRays(rays, scene)
    /\ tpc' = "idle"
    /\ ti' = 0
    /\ ray' = None
    /\ currentOrigin' = <<0, 0>>
    /\ currentDirection' = <<0, 0>>
    /\ bounces' = 0
    /\ hitMirror' = FALSE
    /\ UNCHANGED <<scene, rays, rvars, vvars, hvars, ivars>>

----------------------------------------------------------------------------
(* Inputs of the virtual-image generator *)

MaxMirrors == 3

\* the mirrors of the presets, a mirror at 45 degrees and a degenerate one
MirrorPool ==
    << <<P(300, 200), P(300, 400)>>, <<P(300, 200), P(500, 200)>>,
       <<P(500, 200), P(500, 400)>>, <<P(300, 400), P(500, 200)>>,
       <<P(400, 100), P(400, 100)>> >>

RECURSIVE Pick(_, _, _)
\* the elements of pool at the positions in S, from position k on, in order
Pick(pool, S, k) ==
    IF k > Len(pool) THEN <<>>
    ELSE (IF k \in S THEN <<pool[k]>> ELSE <<>>) \o Pick(pool, S, k + 1)

VPlayers == {P(400, 300), P(400, 350)}
VEntities == { <<>>, << P(350, 250) >>, << P(375, 264), P(400, 250) >> }
VBounds == {P(800, 600), P(400, 300), P(150, 150)}

VScenes ==
    { Build(pl, es, Pick(MirrorPool, S, 1)) :
        pl \in VPlayers, es \in VEntities,
        S \in {T \in SUBSET (1..Len(MirrorPool)) : Cardinality(T) <= MaxMirrors} }

----------------------------------------------------------------------------
(* Inputs of reflectPointAcrossMirror *)

MaxCoord == 3

RPoints == (-MaxCoord..MaxCoord) \X (-MaxCoord..MaxCoord)
\* axis-aligned and diagonal directions, and the zero direction
RDirections == ((-1..1) \X (-1..1))
RMirrors ==
    { [id |-> MirrorId(1), start |-> st,
       end |-> <<st[1] + len * d[1], st[2] + len * d[2]>>] :
        st \in (-1..1) \X (-1..1), d \in RDirections, len \in 1..2 }

----------------------------------------------------------------------------
(* Specifications *)

RIdle ==
    /\ rpoint = <<0, 0>>
    /\ rmirror = [id |-> MirrorId(1), start |-> <<0, 0>>, end |-> <<0, 0>>]
    /\ rimage = <<0, 0>>
    /\ rcount = 0

VIdle ==
    /\ vscene = singleMirror
    /\ vbounds = P(800, 600)
    /\ vstack = <<>>
    /\ vresult = <<>>
    /\ vpc = "off"
    /\ vrooms = <<>>

TIdle ==
    /\ scene = singleMirror
    /\ tpc = "off"
    /\ ti = 0
    /\ ray = None
    /\ currentOrigin = <<0, 0>>
    /\ currentDirection = <<0, 0>>
    /\ bounces = 0
    /\ hitMirror = FALSE
    /\ rays = <<>>
    /\ result = <<>>

HIdle ==
    /\ heap = <<>>
    /\ hscene = None
    /\ hbounds = <<0, 0>>
    /\ hbefore = None
    /\ hrays = <<>>
    /\ himages = <<>>
    /\ hdone = {"off"}

IIdle ==
    /\ dragState = None
    /\ selectedEntity = None
    /\ mousePosition = <<0, 0>>
    /\ pendingActions = <<>>
    /\ isMouseDown = FALSE
    /\ batchTimer = FALSE
    /\ handlerEntities = <<>>
    /\ handlerPlayer = None
    /\ initialScene = None
    /\ enqueued = 0
    /\ delivered = <<>>
    /\ dropped = {}
    /\ lastBatch = <<>>
    /\ pendingAtOnChange = <<>>
    /\ destroyed = FALSE
    /\ logging = FALSE

\* reflectPointAcrossMirror applied to its own result
Reflect ==
    /\ rcount < 2
    /\ rimage' = reflectPointAcrossMirror(rimage, rmirror)
    /\ rcount' = rcount + 1
    /\ UNCHANGED <<rpoint, rmirror, vvars, tvars, hvars, ivars>>

InitReflect ==
    /\ rpoint \in RPoints
    /\ rmirror \in RMirrors
    /\ rimage = rpoint
    /\ rcount = 0
    /\ VIdle /\ TIdle /\ HIdle /\ IIdle

SpecReflect == InitReflect /\ [][Reflect]_vars

InitVirtual ==
    /\ vscene \in VScenes
    /\ vbounds \in VBounds
    /\ vstack = <<>>
    /\ vresult = <<>>
    /\ vpc = "idle"
    /\ vrooms = <<>>
    /\ RIdle /\ TIdle /\ HIdle /\ IIdle

NextVirtual ==
    \/ calculateVirtualImages
    \/ SkipMirror
    \/ EnterRoom
    \/ ReturnNested
    \/ ReturnImages

SpecVirtual == InitVirtual /\ [][NextVirtual]_vars

----------------------------------------------------------------------------
(* Properties of the virtual-image generator *)

\* every image calculateVirtualImages has returned or has collected so far
Images ==
    Range(vresult) \cup UNION {Range(vstack[k].virtualImages) : k \in DOMAIN vstack}

NoRepeat(s) == \A j, k \in DOMAIN s : j # k => s[j] # s[k]

\* no quotient of a reflection of the run has a remainder
ExactV ==
    \A k \in DOMAIN vstack : \A m \in Range(originalMirrors) :
        /\ ExactReflection(vstack[k].currentRoom.player.position, m)
        /\ \A e \in Range(vstack[k].currentRoom.entities) : ExactReflection(e.position, m)
        /\ \A r \in Range(vstack[k].currentRoom.mirrors) :
              /\ ExactReflection(r.start, m) /\ ExactReflection(r.end, m)
              /\ (r.start[1] + r.end[1]) % 2 = 0 /\ (r.start[2] + r.end[2]) % 2 = 0

\* C1 as stated: every image, of whatever type, has its position p within
\* -width <= p.x <= 2*width and -height <= p.y <= 2*height.
C1_AllPositionsInBounds ==
    \A img \in Images :
        /\ img.position[1] >= -vbounds[1] /\ img.position[1] <= 2 * vbounds[1]
        /\ img.position[2] >= -vbounds[2] /\ img.position[2] <= 2 * vbounds[2]

\* C1 amended: every player or entity image has its position within the
\* bounds rectangle; every mirror image has its position (the reflected
\* midpoint) or one of its reflected endpoints within the rectangle.
C1_PositionsInBounds ==
    \A img \in Images :
        LET inside(p) == /\ p[1] >= -vbounds[1] /\ p[1] <= 2 * vbounds[1]
                         /\ p[2] >= -vbounds[2] /\ p[2] <= 2 * vbounds[2]
        IN  IF img.originalType = "mirror"
            THEN \/ inside(img.position)
                 \/ inside(img.mirrorData.start)
                 \/ inside(img.mirrorData.end)
            ELSE inside(img.position)

\* the run is over, it returned an entity image and a mirror image, and it
\* dropped the image of an entity whose reflection across a mirror is outside
C1_Witness ==
    /\ vpc = "done"
    /\ \E img \in Range(vresult) : img.originalType = "entity"
    /\ \E img \in Range(vresult) : img.originalType = "mirror"
    /\ \E e \in Range(vscene.entities), m \in Range(originalMirrors) :
          /\ ~isPointInBounds(vbounds, reflectPointAcrossMirror(e.position, m))
          /\ \A img \in Range(vresult) :
                ~(img.originalId = e.id /\ img.originalType = "entity"
                  /\ img.mirrorChain = <<m.id>>)

\* C2: in a scene whose mirror ids are pairwise distinct, no image's
\* mirrorChain holds a mirror id twice.
C2_ChainNoRepeat ==
    NoRepeat(SeqMap(LAMBDA m : m.id, originalMirrors)) =>
        \A img \in Images : NoRepeat(img.mirrorChain)

\* the run is over with three distinct mirrors and an image of the third room
C2_Witness ==
    /\ vpc = "done"
    /\ Len(originalMirrors) = 3
    /\ NoRepeat(SeqMap(LAMBDA m : m.id, originalMirrors))
    /\ \E img \in Range(vresult) : Len(img.mirrorChain) = 3

\* C3: with M mirrors in the scene, every image's mirrorChain has a length
\* of at least 1 and at most M.
C3_ChainLength ==
    \A img \in Images :
        Len(img.mirrorChain) >= 1 /\ Len(img.mirrorChain) <= Len(originalMirrors)

\* the run is over and returned images of chain length 1 and of length M = 2
C3_Witness ==
    /\ vpc = "done"
    /\ Len(originalMirrors) = 2
    /\ \E img \in Range(vresult) : Len(img.mirrorChain) = 1
    /\ \E img \in Range(vresult) : Len(img.mirrorChain) = Len(originalMirrors)

\* C4: for every image, bounces = virtualRoom = length of mirrorChain.
C4_BouncesRoomChain ==
    \A img \in Images :
        img.bounces = img.virtualRoom /\ img.virtualRoom = Len(img.mirrorChain)

\* the run is over and returned a first-level image (value 1) and a
\* second-level image (value 2)
C4_Witness ==
    /\ vpc = "done"
    /\ \E img \in Range(vresult) : img.bounces = 1 /\ Len(img.mirrorChain) = 1
    /\ \E img \in Range(vresult) : img.bounces = 2 /\ Len(img.mirrorChain) = 2

----------------------------------------------------------------------------
(* Properties of reflectPointAcrossMirror *)

\* no quotient of the two reflections has a remainder
ExactR == ExactReflection(rimage, rmirror)

----------------------------------------------------------------------------
(* The lesson: scenes under ADD_OBJECT and MOVE_ENTITY, each one traced *)

\* two long facing mirrors 40 pixels apart with the player between them.
\* The diagonal rays zigzag up the corridor and cross its middle at
\* y = 20 + 40k after k bounces: the first entity is in the way of one of
\* them at its third bounce, the second is reached by the other after 11.
corridor ==
    Build(P(320, 20), << P(314, 120), P(320, 460) >>,
          << <<P(300, 0), P(300, 600)>>, <<P(340, 0), P(340, 600)>> >>)

\* the player between two facing mirrors, the second one through the point
\* where the sightline to the right meets the first edge of the entity: the
\* ray to the left comes back from the first mirror, through the player, to
\* a point that is on the second mirror and on the entity
grazed ==
    Build(P(400, 300), << P(450, 300) >>,
          << <<P(300, 200), P(300, 400)>>, <<P(446, 200), P(446, 400)>> >>)

\* the corridor with its entities farther up: the diagonal ray that starts
\* to the left meets the first entity after its 9th bounce, the one that
\* starts to the right passes it and would meet the second after its 10th
corridorEnd ==
    Build(P(320, 20), << P(314, 360), P(320, 420) >>,
          << <<P(300, 0), P(300, 600)>>, <<P(340, 0), P(340, 600)>> >>)

\* the scene of main (part_000) is twoMirrors
LScenes == {singleMirror, twoMirrors, threeMirrors, corridor, grazed, corridorEnd}

InitLesson ==
    /\ scene \in LScenes
    /\ tpc = "dirty"
    /\ ti = 0
    /\ ray = None
    /\ currentOrigin = <<0, 0>>
    /\ currentDirection = <<0, 0>>
    /\ bounces = 0
    /\ hitMirror = FALSE
    /\ rays = <<>>
    /\ result = <<>>
    /\ RIdle /\ VIdle /\ HIdle /\ IIdle

NextLesson ==
    \/ MoveEntity
    \/ AddObject
    \/ TraceBegin
    \/ CastRay
    \/ BounceLimit
    \/ NoIntersection
    \/ HitMirror
    \/ HitEntityAccepted
    \/ HitEntityRejected
    \/ SelectRays

SpecLesson == InitLesson /\ [][NextLesson]_vars

\* no quotient of the ray tracer has a remainder
ExactT ==
    tpc = "loop" =>
        /\ \A m \in Range(scene.mirrors) :
              ExactIntersection(currentOrigin, currentDirection, m.start, m.end)
        /\ \A e \in Range(scene.entities) : \A i \in 1..3 :
              ExactIntersection(currentOrigin, currentDirection,
                                e.vertices[i], e.vertices[(i % 3) + 1])

----------------------------------------------------------------------------
(* Properties of the ray tracer and of the scene edits *)

\* p lies on the segment from a to b
OnSegment(p, a, b) ==
    LET ab == vec2_sub(b, a)
        ap == vec2_sub(p, a)
    IN  /\ ab[1] * ap[2] - ab[2] * ap[1] = 0
        /\ vec2_dot(ap, ab) >= 0
        /\ vec2_dot(ap, ab) <= vec2_dot(ab, ab)

OnMirror(p) == \E m \in Range(scene.mirrors) : OnSegment(p, m.start, m.end)

EntityIds == SeqMap(LAMBDA e : e.id, scene.entities)

\* C5: every returned ray has entityId set, at least 2 history points and a
\* point on a mirror before its last point; a ray whose first intersection
\* is an entity is not returned.
C5_BouncedRaysOnly ==
    \A r \in Range(result) :
        /\ "entityId" \in DOMAIN r
        /\ Len(r.history) >= 2
        /\ \E k \in 2..(Len(r.history) - 1) : OnMirror(r.history[k])
        /\ LET first == findNearestIntersection(r.origin, r.direction, scene, TRUE)
           IN  ~IsNone(first) /\ "entityId" \notin DOMAIN first

\* trace returned a ray, and left out a direction in which the player sees
\* an entity directly with a mirror behind it
C5_Witness ==
    /\ tpc = "idle"
    /\ result # <<>>
    /\ \E d \in Range(DIRECTIONS) :
          LET first == findNearestIntersection(scene.player.position, d, scene, TRUE)
          IN  /\ ~IsNone(first)
              /\ "entityId" \in DOMAIN first
              /\ \E m \in Range(scene.mirrors) :
                    ~IsNone(rayLineIntersection(scene.player.position, d, m.start, m.end))
              /\ \A r \in Range(result) : r.direction # d

\* C6: for every entity whose id is the entityId of a returned ray, exactly
\* one returned ray has that entityId, and its last point is at least as
\* near to the entity's position as the last point of every accepted ray
\* with that entityId.
C6_OneNearestRayPerEntity ==
    tpc = "idle" =>
        \A e \in Range(scene.entities) :
            LET mine == {k \in DOMAIN result : result[k].entityId = e.id}
            IN  mine # {} =>
                  /\ Cardinality(mine) = 1
                  /\ \A k \in mine : \A c \in Range(rays) :
                        c.entityId = e.id =>
                            vec2_dist2(lastIntersection(result[k]), e.position)
                                <= vec2_dist2(lastIntersection(c), e.position)

\* C6 holds of every scene whose entity ids are pairwise distinct
C6_HoldsWhileIdsDistinct ==
    NoRepeat(EntityIds) => C6_OneNearestRayPerEntity

\* C7: the returned rays are in the order of scene.entities, one for each
\* entity id with an accepted ray and no element, defined or not, for an
\* entity without one.
C7_EntityOrder ==
    tpc = "idle" =>
        /\ \A k \in DOMAIN result : ~IsUndefined(result[k])
        /\ SeqMap(LAMBDA r : r.entityId, result)
             = SelectSeq(EntityIds, LAMBDA id : \E c \in Range(rays) : c.entityId = id)

\* trace returned rays for two entities, and none for an entity that comes
\* before one of them in the scene
C7_Witness ==
    /\ tpc = "idle"
    /\ Len(result) >= 2
    /\ \E j, k \in DOMAIN scene.entities :
          /\ j < k
          /\ \A r \in Range(result) : r.entityId # scene.entities[j].id
          /\ \E r \in Range(result) : r.entityId = scene.entities[k].id

RECURSIVE reflectionsToEntity(_, _, _, _)
\* the mirror reflections a sightline makes before it meets an entity, n of
\* them made so far; -1 if it meets none within MAX_BOUNCES + 2 reflections
reflectionsToEntity(origin, direction, sc, n) ==
    IF n > MAX_BOUNCES + 2 THEN -1
    ELSE LET x == findNearestIntersection(origin, direction, sc, TRUE)
         IN  IF IsNone(x) THEN -1
             ELSE IF "mirrorId" \in DOMAIN x
                  THEN reflectionsToEntity(x.point, reflect(direction, x.normal), sc, n + 1)
                  ELSE n

\* C8: no returned ray has more than 10 mirror-reflection points in its
\* history, and a direction whose sightline needs more than 10 reflections
\* to reach an entity gives no ray.
C8_BounceLimit ==
    tpc = "idle" =>
        /\ \A r \in Range(result) :
              Cardinality({k \in 2..(Len(r.history) - 1) : OnMirror(r.history[k])})
                  <= MAX_BOUNCES
        /\ \A d \in Range(DIRECTIONS) :
              reflectionsToEntity(scene.player.position, d, scene, 0) > MAX_BOUNCES =>
                  \A r \in Range(rays) \cup Range(result) : r.direction # d

\* trace returned a ray, and none for a direction whose sightline reaches an
\* entity after 11 reflections
C8_Witness ==
    /\ tpc = "idle"
    /\ result # <<>>
    /\ \E d \in Range(DIRECTIONS) :
          /\ reflectionsToEntity(scene.player.position, d, scene, 0) = MAX_BOUNCES + 1
          /\ \A r \in Range(rays) : r.direction # d

\* C9: no two entities of the scene share an id.
C9_EntityIdsDistinct == NoRepeat(EntityIds)

----------------------------------------------------------------------------
(* Further properties of the virtual-image generator *)

\* the scene of C11: the viewer at (400,300) and the single mirror mirror_1
\* from (300,200) to (300,400), under bounds that hold (200,300)
ViewerAndMirror1 ==
    /\ vscene.player.position = P(400, 300)
    /\ vscene.mirrors = << [start |-> P(300, 200), end |-> P(300, 400),
                            id |-> "mirror_1"] >>
    /\ isPointInBounds(vbounds, P(200, 300))

PlayerImages == SelectSeq(vresult, LAMBDA img : img.originalType = "player")

\* C11: for the viewer at (400,300) and the single mirror mirror_1 from
\* (300,200) to (300,400), with bounds that hold x = 200, the result has
\* exactly one player image; it has bounces 1, mirrorChain <<"mirror_1">>
\* and position (200,300).
C11_SingleMirrorPlayerImage ==
    (vpc = "done" /\ ViewerAndMirror1) =>
        /\ Len(PlayerImages) = 1
        /\ PlayerImages[1].bounces = 1
        /\ PlayerImages[1].mirrorChain = <<"mirror_1">>
        /\ PlayerImages[1].position = P(200, 300)

\* the run over that scene is over, under the bounds (400,300)
C11_Witness ==
    /\ vpc = "done"
    /\ ViewerAndMirror1
    /\ vbounds = P(400, 300)
    /\ vresult # <<>>

\* C12: for a scene with no mirror, calculateVirtualImages returns the empty
\* sequence, whatever the player, the entities and the bounds.
C12_NoMirrorsNoImages ==
    (vpc = "done" /\ Len(vscene.mirrors) = 0) => vresult = <<>>

\* the run over a scene with two entities and no mirror is over
C12_Witness ==
    /\ vpc = "done"
    /\ Len(vscene.mirrors) = 0
    /\ Len(vscene.entities) = 2

RECURSIVE callSteps(_, _)
\* the steps one call of calculateVirtualRoomsRecursive takes before it
\* returns, with M mirrors of distinct ids and a chain of length L: a step
\* for each mirror of the chain, and for each other mirror a step to enter
\* its room, the nested call and a step to return from it
callSteps(M, L) ==
    IF L >= M THEN M ELSE L + (M - L) * (2 + callSteps(M, L + 1))

RECURSIVE loopSteps(_, _)
\* the steps the loop of an activation takes from position i on
loopSteps(frame, i) ==
    IF i > Len(originalMirrors) THEN 0
    ELSE (IF chainBlocks(frame.mirrorChain, originalMirrors[i]) THEN 1
          ELSE 2 + callSteps(Len(originalMirrors), Len(frame.mirrorChain) + 1))
         + loopSteps(frame, i + 1)

RECURSIVE stackSteps(_)
\* the steps left to the activations from k up: the topmost is at the head
\* of iteration i, every other one is inside iteration i, waiting for its
\* nested call
stackSteps(k) ==
    IF k > Len(vstack) THEN 0
    ELSE (IF k = Len(vstack) THEN loopSteps(vstack[k], vstack[k].i)
          ELSE 1 + loopSteps(vstack[k], vstack[k].i + 1))
         + stackSteps(k + 1)

\* the steps left before calculateVirtualImages has returned
StepsLeft ==
    IF vpc = "idle" THEN 2 + callSteps(Len(originalMirrors), 0)
    ELSE IF vpc = "running" THEN 1 + stackSteps(1)
    ELSE 0

\* C14: with M mirrors of pairwise distinct ids, calculateVirtualImages
\* terminates (every step leaves fewer steps to take, only the return of the
\* result leaves none, and while it runs there is an activation to go on
\* with), and never are more than M + 1 calls of
\* calculateVirtualRoomsRecursive nested.
C14_TerminatesDepthBounded ==
    [][ NoRepeat(SeqMap(LAMBDA m : m.id, originalMirrors)) =>
          /\ StepsLeft' < StepsLeft
          /\ StepsLeft' >= 0
          /\ StepsLeft' = 0 <=> vpc' = "done"
          /\ vpc' = "running" => Len(vstack') >= 1
          /\ Len(vstack') <= Len(originalMirrors) + 1 ]_vars

\* with three mirrors, four calls are nested: the innermost finds every
\* mirror in its chain
C14_Witness ==
    /\ Len(originalMirrors) = 3
    /\ Len(vstack) = Len(originalMirrors) + 1
    /\ \A m \in Range(originalMirrors) : chainBlocks(Top.mirrorChain, m)

\* the original mirror of the scene with this id
MirrorById(id) == CHOOSE m \in Range(originalMirrors) : m.id = id

MirrorIds == {m.id : m \in Range(originalMirrors)}

\* the non-empty sequences of pairwise distinct mirror ids
Chains ==
    {c \in UNION {[1..k -> MirrorIds] : k \in 1..Len(originalMirrors)} : NoRepeat(c)}

RECURSIVE ReflectAlong(_, _)
\* p reflected across the lines of the original mirrors c[1], ..., c[Len(c)]
ReflectAlong(p, c) ==
    IF c = <<>> THEN p
    ELSE reflectPointAcrossMirror(ReflectAlong(p, SubSeq(c, 1, Len(c) - 1)),
                                  MirrorById(c[Len(c)]))

\* the bounds test of a mirror image on a reflected segment
SegmentPasses(start, end) ==
    \/ isPointInBounds(vbounds, start)
    \/ isPointInBounds(vbounds, end)
    \/ isPointInBounds(vbounds, <<(start[1] + end[1]) \div 2, (start[2] + end[2]) \div 2>>)

\* C15 as stated: no mirror image has as originalId the last id of its
\* mirrorChain.
C15_NoSelfMirrorImage ==
    \A img \in Images :
        img.originalType = "mirror" => img.originalId # img.mirrorChain[Len(img.mirrorChain)]

\* C15 amended: the reflecting mirror is not excluded.  For every chain c of
\* distinct mirror ids and every mirror m of the scene, the reflecting
\* mirror (the last of c) included, the result holds a mirror image of m
\* with mirrorChain c exactly if m's segment reflected along c passes the
\* bounds test; at room 1 a mirror that passes is its own image.
C15_EveryRoomMirrorReflected ==
    vpc = "done" =>
        \A c \in Chains : \A m \in Range(originalMirrors) :
            SegmentPasses(ReflectAlong(m.start, c), ReflectAlong(m.end, c))
            <=> \E img \in Range(vresult) :
                    /\ img.originalType = "mirror"
                    /\ img.originalId = m.id
                    /\ img.mirrorChain = c
                    /\ img.mirrorData.start = ReflectAlong(m.start, c)
                    /\ img.mirrorData.end = ReflectAlong(m.end, c)

\* the run is over and returned a mirror as its own image at room 1, and a
\* second-room image of the mirror reflected across last
C15_Witness ==
    /\ vpc = "done"
    /\ \E img \in Range(vresult) :
          /\ img.originalType = "mirror"
          /\ img.mirrorChain = <<img.originalId>>
          /\ img.mirrorData.start = MirrorById(img.originalId).start
    /\ \E img \in Range(vresult) :
          /\ img.originalType = "mirror"
          /\ Len(img.mirrorChain) = 2
          /\ img.mirrorChain[2] = img.originalId

\* the position of the mirror with this id in originalMirrors
MirrorIndex(id) == CHOOSE k \in DOMAIN originalMirrors : originalMirrors[k].id = id

\* the place of an image in the block of its room: the player, then the
\* entities in scene order, then the mirrors in room order
PlaceInRoom(img) ==
    IF img.originalType = "player" THEN 0
    ELSE IF img.originalType = "entity"
         THEN CHOOSE k \in DOMAIN vscene.entities : vscene.entities[k].id = img.originalId
         ELSE Len(vscene.entities) + MirrorIndex(img.originalId)

IsProperPrefix(c, d) == Len(c) < Len(d) /\ SubSeq(d, 1, Len(c)) = c

\* c and d agree up to a position where c names a mirror listed before d's
BranchesBefore(c, d) ==
    \E k \in 1..Len(c) :
        /\ k <= Len(d)
        /\ SubSeq(c, 1, k - 1) = SubSeq(d, 1, k - 1)
        /\ MirrorIndex(c[k]) < MirrorIndex(d[k])

\* C16: the result is in depth-first order.  The images of one chain are
\* contiguous, ordered player, entities in scene order, mirrors in room
\* order; they come before every image whose chain extends theirs; and of
\* two chains that part at some position, the images of the one that names
\* the mirror listed earlier there come first.
C16_DepthFirstOrder ==
    vpc = "done" =>
        \A i, j \in DOMAIN vresult :
            LET c == vresult[i].mirrorChain
                d == vresult[j].mirrorChain
            IN  /\ (i < j /\ c = d) =>
                      /\ PlaceInRoom(vresult[i]) < PlaceInRoom(vresult[j])
                      /\ \A k \in i..j : vresult[k].mirrorChain = c
                /\ IsProperPrefix(c, d) => i < j
                /\ BranchesBefore(c, d) => i < j

\* the run is over; the result holds, of one room, the player, an entity and
\* a mirror, an image of a room nested in it, and an image of a room across
\* a mirror listed later
C16_Witness ==
    /\ vpc = "done"
    /\ \E i, j, k, n, l \in DOMAIN vresult :
          /\ vresult[i].originalType = "player"
          /\ vresult[j].originalType = "entity"
          /\ vresult[k].originalType = "mirror"
          /\ vresult[i].mirrorChain = vresult[j].mirrorChain
          /\ vresult[j].mirrorChain = vresult[k].mirrorChain
          /\ IsProperPrefix(vresult[k].mirrorChain, vresult[n].mirrorChain)
          /\ BranchesBefore(vresult[n].mirrorChain, vresult[l].mirrorChain)

\* the position in the real scene of the object an image is an image of
RealPosition(img) ==
    IF img.originalType = "player" THEN vscene.player.position
    ELSE (CHOOSE e \in Range(vscene.entities) : e.id = img.originalId).position

\* q is the mirror image of p in the infinite line through the segment of
\* m: the line is the perpendicular bisector of p and q (a degenerate m has
\* no line and leaves p where it is)
IsReflectionInLine(p, q, m) ==
    LET d == vec2_sub(m.end, m.start)
        twiceMid == vec2_sub(vec2_add(p, q), vec2_add(m.start, m.start))
    IN  IF d = <<0, 0>> THEN q = p
        ELSE /\ vec2_dot(vec2_sub(q, p), d) = 0
             /\ d[1] * twiceMid[2] - d[2] * twiceMid[1] = 0

\* the foot of the perpendicular from p to the line of m is off its segment
FootOffSegment(p, m) ==
    LET d == vec2_sub(m.end, m.start)
    IN  vec2_dot(vec2_sub(p, m.start), d) < 0
        \/ vec2_dot(vec2_sub(p, m.start), d) > vec2_dot(d, d)

\* C17: the position of every player or entity image with mirrorChain
\* c1, ..., ck is the object's real position reflected across the line of
\* the original scene mirror c1, then of c2, ..., then of ck; the reflected
\* copies of the mirrors held in a room are not reflected across.
C17_PositionAlongOriginalMirrors ==
    \A img \in Images :
        img.originalType \in {"player", "entity"} =>
            LET c == img.mirrorChain
                at(k) == ReflectAlong(RealPosition(img), SubSeq(c, 1, k))
            IN  /\ img.position = at(Len(c))
                /\ \A k \in 1..Len(c) :
                      IsReflectionInLine(at(k - 1), at(k), MirrorById(c[k]))

\* the run is over and returned a player image of the third room and an
\* entity image of a second room whose second mirror differs, as a line,
\* from its copy in the first room, and whose first image faces the line of
\* the second mirror beyond the end of its segment
C17_Witness ==
    /\ vpc = "done"
    /\ \E img \in Range(vresult) :
          img.originalType = "player" /\ Len(img.mirrorChain) = 3
    /\ \E img \in Range(vresult) :
          /\ img.originalType = "entity"
          /\ Len(img.mirrorChain) = 2
          /\ LET first == MirrorById(img.mirrorChain[1])
                 second == MirrorById(img.mirrorChain[2])
                 once == reflectPointAcrossMirror(RealPosition(img), first)
             IN  /\ reflectPointAcrossMirror(once, reflectMirrorAcrossMirror(second, first))
                       # img.position
                 /\ FootOffSegment(once, second)
                 /\ once # img.position

RECURSIVE RoomCount(_)
\* M!/(M-1)! + ... + M!/0!, the number of non-empty chains of distinct ids
\* out of M: any of M first mirrors, each alone or before a chain of the rest
RoomCount(M) == IF M = 0 THEN 0 ELSE M * (1 + RoomCount(M - 1))

\* the real objects that have player and entity images
Objects ==
    {[type |-> "player", id |-> "player", position |-> vscene.player.position]}
    \cup {[type |-> "entity", id |-> e.id, position |-> e.position] :
             e \in Range(vscene.entities)}

\* the places of the result that hold the image of object o with chain c
ImagesOf(o, c) ==
    {k \in DOMAIN vresult : /\ vresult[k].originalType = o.type
                            /\ vresult[k].originalId = o.id
                            /\ vresult[k].mirrorChain = c}

\* C18: one room is explored for each non-empty sequence of pairwise
\* distinct mirror ids, sum over k of M!/(M-k)! rooms in all, with no pruning
\* on bounds: for each such chain c and each of the player and the entities,
\* the result has one image with chain c if the object's position reflected
\* along c passes the bounds test, and none if not; a room gives at most
\* 1 + (entities) + (mirrors) images.
C18_OneRoomPerChain ==
    vpc = "done" =>
        /\ \A k \in DOMAIN vrooms : vrooms[k] \in Chains
        /\ \A c \in Chains : Cardinality({k \in DOMAIN vrooms : vrooms[k] = c}) = 1
        /\ Len(vrooms) = RoomCount(Len(originalMirrors))
        /\ \A c \in Chains :
              /\ \A o \in Objects :
                    Cardinality(ImagesOf(o, c))
                      = IF isPointInBounds(vbounds, ReflectAlong(o.position, c)) THEN 1 ELSE 0
              /\ Cardinality({k \in DOMAIN vresult : vresult[k].mirrorChain = c})
                    <= 1 + Len(vscene.entities) + Len(vscene.mirrors)

\* the run over three mirrors is over: a room of the second level gave an
\* image of the player though the room before it gave no image at all, and
\* some room gave no image of an entity
C18_Witness ==
    /\ vpc = "done"
    /\ Len(originalMirrors) = 3
    /\ Len(vrooms) = RoomCount(3)
    /\ \E img \in Range(vresult) :
          /\ img.originalType = "player"
          /\ Len(img.mirrorChain) = 2
          /\ \A other \in Range(vresult) : other.mirrorChain # <<img.mirrorChain[1]>>
    /\ \E c \in Chains, o \in Objects : o.type = "entity" /\ ImagesOf(o, c) = {}

----------------------------------------------------------------------------
(* Further properties of the ray tracer *)

\* the hits findNearestIntersection chooses from when traceRay calls it, in
\* the order it examines them: the mirrors, then the entities
Candidates ==
    [k \in 1..(Len(scene.mirrors) + Len(scene.entities)) |->
        IF k <= Len(scene.mirrors)
        THEN rayLineIntersection(currentOrigin, currentDirection,
                                 scene.mirrors[k].start, scene.mirrors[k].end)
        ELSE rayTriangleIntersection(currentOrigin, currentDirection,
                                     scene.entities[k - Len(scene.mirrors)].vertices)]

Hits == {k \in DOMAIN Candidates : ~IsNone(Candidates[k])}

\* the hit examined first among those at the smallest distance
FirstNearest ==
    CHOOSE k \in Hits :
        /\ \A j \in Hits : Candidates[k].distance <= Candidates[j].distance
        /\ \A j \in Hits : Candidates[j].distance = Candidates[k].distance => k <= j

\* the ray from currentOrigin goes through the middle of the player's circle
ThroughPlayer ==
    LET toCenter == vec2_sub(scene.player.position, currentOrigin)
    IN  /\ toCenter[1] * currentDirection[2] - toCenter[2] * currentDirection[1] = 0
        /\ vec2_dot(toCenter, currentDirection) > 0

\* C19: what findNearestIntersection returns to traceRay is none if nothing
\* is hit, and else the hit at the smallest distance, the one examined first
\* of several at that distance, mirrors in scene order before entities in
\* scene order, so that a mirror wins over an entity at the same distance;
\* it is a hit on a mirror or on an entity, never on the player's circle.
C19_NearestFirstExamined ==
    tpc = "loop" =>
        IF Hits = {} THEN IsNone(Intersection)
        ELSE LET k == FirstNearest
                 x == Intersection
             IN  /\ ~IsNone(x)
                 /\ x.point = Candidates[k].point
                 /\ x.distance = Candidates[k].distance
                 /\ \A j \in Hits : x.distance <= Candidates[j].distance
                 /\ IF k <= Len(scene.mirrors)
                    THEN /\ "mirrorId" \in DOMAIN x
                         /\ x.mirrorId = scene.mirrors[k].id
                         /\ "entityId" \notin DOMAIN x
                    ELSE /\ "entityId" \in DOMAIN x
                         /\ x.entityId = scene.entities[k - Len(scene.mirrors)].id
                         /\ "mirrorId" \notin DOMAIN x

\* a ray that came back from a mirror goes through the player and on to a
\* point where a mirror and an entity are hit at the same distance: the hit
\* is the mirror's, and it lies beyond the player
C19_Witness ==
    /\ tpc = "loop"
    /\ bounces >= 1
    /\ ThroughPlayer
    /\ \E m \in 1..Len(scene.mirrors), e \in (Len(scene.mirrors) + 1)..Len(Candidates) :
          /\ m \in Hits /\ e \in Hits
          /\ Candidates[m].distance = Candidates[e].distance
          /\ FirstNearest = m
    /\ "mirrorId" \in DOMAIN Intersection
    /\ vec2_dist2(currentOrigin, Intersection.point)
          > vec2_dist2(currentOrigin, scene.player.position)

\* the hits of the ray on the edges v0-v1, v1-v2, v2-v0 of a triangle
EdgeHits(vertices) ==
    << rayLineIntersection(currentOrigin, currentDirection, vertices[1], vertices[2]),
       rayLineIntersection(currentOrigin, currentDirection, vertices[2], vertices[3]),
       rayLineIntersection(currentOrigin, currentDirection, vertices[3], vertices[1]) >>

\* C20: rayTriangleIntersection returns the point and the distance of the
\* first of the edges v0-v1, v1-v2, v2-v0 that the ray hits, also when a
\* later edge is hit nearer; it returns none only if no edge is hit.
C20_FirstEdgeInOrder ==
    tpc = "loop" =>
        \A e \in Range(scene.entities) :
            LET edges == EdgeHits(e.vertices)
                hit == {k \in 1..3 : ~IsNone(edges[k])}
                r == rayTriangleIntersection(currentOrigin, currentDirection, e.vertices)
            IN  IF hit = {} THEN IsNone(r)
                ELSE LET first == CHOOSE k \in hit : \A j \in hit : k <= j
                     IN  /\ ~IsNone(r)
                         /\ r.point = edges[first].point
                         /\ r.distance = edges[first].distance

\* the ray crosses a triangle whose first edge it hits farther away than a
\* later one, and the hit returned is the farther one; it misses another
\* triangle altogether
C20_Witness ==
    /\ tpc = "loop"
    /\ \E e \in Range(scene.entities) :
          LET edges == EdgeHits(e.vertices)
              r == rayTriangleIntersection(currentOrigin, currentDirection, e.vertices)
          IN  /\ ~IsNone(edges[1])
              /\ \E k \in 2..3 : /\ ~IsNone(edges[k])
                                  /\ edges[k].distance < edges[1].distance
              /\ r.distance = edges[1].distance
    /\ \E e \in Range(scene.entities) :
          IsNone(rayTriangleIntersection(currentOrigin, currentDirection, e.vertices))

----------------------------------------------------------------------------
(* The vec2 objects: virtual.ts over a heap *)

\* const a = v; followed by the statements K that use a
Then(v, K(_)) == CHOOSE r \in {K(a) : a \in {v}} : TRUE

\* vec2.create() for each of values, followed by the gl-matrix operations
\* whose out it is: new vec2 at the addresses after those in use, holding
\* values; everything the operations read was there before
Heap_create(h, values) == h \o values

\* the slip of handing out the argument itself for a copy of it
vec2_clone_alias(h, a) == [heap |-> h, ref |-> a]

\* vec2.clone(a): a new vec2 with the content of a
vec2_clone(h, a) == [heap |-> Append(h, h[a]), ref |-> Len(h) + 1]

\* the mirror whose start and end are the contents of the vec2 of mirror
Heap_mirror(h, mirror) ==
    [id |-> mirror.id, start |-> h[mirror.start], end |-> h[mirror.end]]

\* reflectPointAcrossMirror, lines 19-36: mirrorDir, normal, toPoint and
\* reflected are created and written; reflected is returned
Heap_reflectPointAcrossMirror(h, point, mirror) ==
    Then(h, LAMBDA h0 :
        LET m == Heap_mirror(h0, mirror)
            mirrorDir == vec2_normalize(vec2_sub(m.end, m.start))
            normal == <<-mirrorDir[2], mirrorDir[1]>>
            toPoint == vec2_sub(h0[point], m.start)
            reflected == reflectPointAcrossMirror(h0[point], m)
        IN  [heap |-> Heap_create(h0, <<mirrorDir, normal, toPoint, reflected>>),
             ref |-> Len(h0) + 4])

\* reflectMirrorAcrossMirror, lines 38-47: { ...mirror, start, end }
Heap_reflectMirrorAcrossMirror(h, mirror, reflectingMirror) ==
    Then(Heap_reflectPointAcrossMirror(h, mirror.start, reflectingMirror), LAMBDA s :
    Then(Heap_reflectPointAcrossMirror(s.heap, mirror.end, reflectingMirror), LAMBDA e :
        [heap |-> e.heap, mirror |-> [id |-> mirror.id, start |-> s.ref, end |-> e.ref]]))

RECURSIVE Heap_roomEntities(_, _, _, _, _, _, _)
\* createVirtualRoom, lines 76-89, from entity k on
Heap_roomEntities(h, bounds, entities, k, reflectingMirror, roomNumber, mirrorChain) ==
    IF k > Len(entities) THEN [heap |-> h, images |-> <<>>]
    ELSE Then(Heap_reflectPointAcrossMirror(h, entities[k].position, reflectingMirror),
              LAMBDA virtualEntity :
         Then(Heap_roomEntities(virtualEntity.heap, bounds, entities, k + 1,
                                reflectingMirror, roomNumber, mirrorChain), LAMBDA rest :
             [heap |-> rest.heap,
              images |->
                 (IF isPointInBounds(bounds, virtualEntity.heap[virtualEntity.ref])
                  THEN << VirtualImage(entities[k].id, "entity", virtualEntity.ref,
                                       roomNumber, mirrorChain, reflectingMirror) >>
                  ELSE <<>>) \o rest.images]))

RECURSIVE Heap_roomMirrors(_, _, _, _, _, _, _)
\* createVirtualRoom, lines 91-112, from mirror k on
Heap_roomMirrors(h, bounds, mirrors, k, reflectingMirror, roomNumber, mirrorChain) ==
    IF k > Len(mirrors) THEN [heap |-> h, images |-> <<>>]
    ELSE Then(Heap_reflectMirrorAcrossMirror(h, mirrors[k], reflectingMirror), LAMBDA vm :
         LET virtualMirror == vm.mirror
             mirrorCenter == Len(vm.heap) + 1
             sum == vec2_add(vm.heap[virtualMirror.start], vm.heap[virtualMirror.end])
         IN  Then(Heap_create(vm.heap, << <<sum[1] \div 2, sum[2] \div 2>> >>), LAMBDA h0 :
             IF \/ isPointInBounds(bounds, h0[virtualMirror.start])
                \/ isPointInBounds(bounds, h0[virtualMirror.end])
                \/ isPointInBounds(bounds, h0[mirrorCenter])
             THEN Then(vec2_clone(h0, virtualMirror.start), LAMBDA start :
                  Then(vec2_clone(start.heap, virtualMirror.end), LAMBDA end :
                  Then(Heap_roomMirrors(end.heap, bounds, mirrors, k + 1, reflectingMirror,
                                        roomNumber, mirrorChain), LAMBDA rest :
                      [heap |-> rest.heap,
                       images |->
                          << VirtualMirrorImage(mirrors[k], mirrorCenter,
                                                [start |-> start.ref, end |-> end.ref],
                                                roomNumber, mirrorChain, reflectingMirror) >>
                          \o rest.images])))
             ELSE Heap_roomMirrors(h0, bounds, mirrors, k + 1, reflectingMirror,
                                   roomNumber, mirrorChain)))

\* createVirtualRoom over the heap: the images hold addresses for positions
Heap_createVirtualRoom(h, bounds, currentRoomState, reflectingMirror, roomNumber, mirrorChain) ==
    Then(Heap_reflectPointAcrossMirror(h, currentRoomState.player.position,
                                       reflectingMirror), LAMBDA virtualPlayer :
    Then(Heap_roomEntities(virtualPlayer.heap, bounds, currentRoomState.entities, 1,
                           reflectingMirror, roomNumber, mirrorChain), LAMBDA es :
    Then(Heap_roomMirrors(es.heap, bounds, currentRoomState.mirrors, 1,
                          reflectingMirror, roomNumber, mirrorChain), LAMBDA ms :
        [heap |-> ms.heap,
         images |->
            (IF isPointInBounds(bounds, virtualPlayer.heap[virtualPlayer.ref])
             THEN << VirtualImage("player", "player", virtualPlayer.ref, roomNumber,
                                  mirrorChain, reflectingMirror) >>
             ELSE <<>>) \o es.images \o ms.images])))

RECURSIVE Heap_nextEntities(_, _, _, _)
\* lines 139-142, from entity k on: { ...entity, position }
Heap_nextEntities(h, entities, k, mirror) ==
    IF k > Len(entities) THEN [heap |-> h, entities |-> <<>>]
    ELSE Then(Heap_reflectPointAcrossMirror(h, entities[k].position, mirror),
              LAMBDA position :
         Then(Heap_nextEntities(position.heap, entities, k + 1, mirror), LAMBDA rest :
             [heap |-> rest.heap,
              entities |-> << [entities[k] EXCEPT !.position = position.ref] >>
                           \o rest.entities]))

RECURSIVE Heap_nextMirrors(_, _, _, _)
\* lines 143-145, from mirror k on
Heap_nextMirrors(h, mirrors, k, mirror) ==
    IF k > Len(mirrors) THEN [heap |-> h, mirrors |-> <<>>]
    ELSE Then(Heap_reflectMirrorAcrossMirror(h, mirrors[k], mirror), LAMBDA m :
         Then(Heap_nextMirrors(m.heap, mirrors, k + 1, mirror), LAMBDA rest :
             [heap |-> rest.heap, mirrors |-> <<m.mirror>> \o rest.mirrors]))

\* calculateVirtualRoomsRecursive, lines 134-146
Heap_nextRoom(h, currentRoom, mirror) ==
    Then(Heap_reflectPointAcrossMirror(h, currentRoom.player.position, mirror),
         LAMBDA position :
    Then(Heap_nextEntities(position.heap, currentRoom.entities, 1, mirror), LAMBDA es :
    Then(Heap_nextMirrors(es.heap, currentRoom.mirrors, 1, mirror), LAMBDA ms :
        [heap |-> ms.heap,
         room |-> [player |-> [currentRoom.player EXCEPT !.position = position.ref],
                   entities |-> es.entities,
                   mirrors |-> ms.mirrors]])))

RECURSIVE Heap_calculateVirtualRoomsRecursive(_, _, _, _, _, _, _, _)
\* calculateVirtualRoomsRecursive from position i of its loop on, with the
\* images pushed so far
Heap_calculateVirtualRoomsRecursive(h, bounds, currentRoom, mirrors, i, roomNumber, mirrorChain, virtualImages) ==
    IF i > Len(mirrors) THEN [heap |-> h, images |-> virtualImages]
    ELSE IF chainBlocks(mirrorChain, mirrors[i])
    THEN Heap_calculateVirtualRoomsRecursive(h, bounds, currentRoom, mirrors, i + 1,
                                             roomNumber, mirrorChain, virtualImages)
    ELSE Then(Heap_createVirtualRoom(h, bounds, currentRoom, mirrors[i], roomNumber,
                                     mirrorChain), LAMBDA roomImages :
         Then(Heap_nextRoom(roomImages.heap, currentRoom, mirrors[i]), LAMBDA next :
         Then(Append(mirrorChain, mirrors[i].id), LAMBDA nestedChain :
         Then(Heap_calculateVirtualRoomsRecursive(next.heap, bounds, next.room, mirrors, 1,
                                                  nestedRoomNumber(roomNumber),
                                                  nestedChain, <<>>), LAMBDA nestedImages :
         Then(virtualImages \o roomImages.images \o nestedImages.images, LAMBDA pushed :
             Heap_calculateVirtualRoomsRecursive(nestedImages.heap, bounds, currentRoom,
                                                 mirrors, i + 1, roomNumber, mirrorChain,
                                                 pushed))))))

\* calculateVirtualImages, lines 160-168
Heap_calculateVirtualImages(h, sc, bounds) ==
    Heap_calculateVirtualRoomsRecursive(h, bounds,
        [player |-> sc.player, entities |-> sc.entities, mirrors |-> sc.mirrors],
        sc.mirrors, 1, 1, <<>>, <<>>)

----------------------------------------------------------------------------
(* The vec2 objects: Ray (scene.ts) over a heap *)

\* rayLineIntersection, lines 198-237: lineDir and rayToLineStart are created
\* on every call, intersection and normal on a hit
Heap_rayLineIntersection(h, rayOrigin, rayDirection, lineStart, lineEnd) ==
    Then(h, LAMBDA h0 :
    Then(rayLineIntersection(h0[rayOrigin], h0[rayDirection],
                             h0[lineStart], h0[lineEnd]), LAMBDA found :
        LET lineDir == vec2_sub(h0[lineEnd], h0[lineStart])
            rayToLineStart == vec2_sub(h0[lineStart], h0[rayOrigin])
        IN  IF IsNone(found)
            THEN [heap |-> Heap_create(h0, <<lineDir, rayToLineStart>>), hit |-> None]
            ELSE [heap |-> Heap_create(h0, <<lineDir, rayToLineStart,
                                             found.point, found.normal>>),
                  hit |-> [point |-> Len(h0) + 3, distance |-> found.distance,
                           normal |-> Len(h0) + 4]]))

RECURSIVE Heap_rayTriangleIntersection(_, _, _, _, _)
\* rayTriangleIntersection, lines 287-319, from edge i on: on a hit normal,
\* edge1 and edge2 are created
Heap_rayTriangleIntersection(h, rayOrigin, rayDirection, vertices, i) ==
    IF i >= 3 THEN [heap |-> h, hit |-> None]
    ELSE Then(Heap_rayLineIntersection(h, rayOrigin, rayDirection,
                                       vertices[i + 1], vertices[((i + 1) % 3) + 1]),
              LAMBDA edge :
         LET edgeIntersection == edge.hit
             g == edge.heap
             edge1 == vec2_sub(g[vertices[2]], g[vertices[1]])
             edge2 == vec2_sub(g[vertices[3]], g[vertices[1]])
             found == rayTriangleIntersection(g[rayOrigin], g[rayDirection],
                                              <<g[vertices[1]], g[vertices[2]],
                                                g[vertices[3]]>>)
         IN  IF IsNone(edgeIntersection)
             THEN Heap_rayTriangleIntersection(g, rayOrigin, rayDirection, vertices, i + 1)
             ELSE [heap |-> Heap_create(g, <<found.normal, edge1, edge2>>),
                   hit |-> [point |-> edgeIntersection.point,
                            distance |-> edgeIntersection.distance,
                            normal |-> Len(g) + 1]])

\* rayCircleIntersection, lines 239-278: toCenter is created on every call,
\* projection and closestPoint once the centre is ahead, intersection and
\* normal on a hit
Heap_rayCircleIntersection(h, rayOrigin, rayDirection, center, radius) ==
    Then(h, LAMBDA h0 :
    Then(rayCircleIntersection(h0[rayOrigin], h0[rayDirection], h0[center], radius),
         LAMBDA found :
        LET toCenter == vec2_sub(h0[center], h0[rayOrigin])
            projLength == vec2_dot(toCenter, h0[rayDirection])
            projection == <<h0[rayDirection][1] * projLength,
                            h0[rayDirection][2] * projLength>>
            closestPoint == vec2_add(h0[rayOrigin], projection)
        IN  IF projLength < 0 THEN [heap |-> Heap_create(h0, <<toCenter>>), hit |-> None]
            ELSE IF IsNone(found)
            THEN [heap |-> Heap_create(h0, <<toCenter, projection, closestPoint>>),
                  hit |-> None]
            ELSE [heap |-> Heap_create(h0, <<toCenter, projection, closestPoint,
                                             found.point, found.normal>>),
                  hit |-> [point |-> Len(h0) + 4, distance |-> found.distance,
                           normal |-> Len(h0) + 5]]))

\* if (intersection && intersection.distance < minDistance): the new nearest
Heap_nearer(hit, nearest) ==
    ~IsNone(hit) /\ (IsNone(nearest) \/ hit.distance < nearest.distance)

RECURSIVE Heap_nearestMirror(_, _, _, _, _, _)
\* findNearestIntersection, lines 325-332, from mirror k on
Heap_nearestMirror(h, rayOrigin, rayDirection, mirrors, k, nearest) ==
    IF k > Len(mirrors) THEN [heap |-> h, hit |-> nearest]
    ELSE Then(Heap_rayLineIntersection(h, rayOrigin, rayDirection,
                                       mirrors[k].start, mirrors[k].end), LAMBDA x :
         Then(IF Heap_nearer(x.hit, nearest)
              THEN Tagged(x.hit, "mirrorId", mirrors[k].id)
              ELSE nearest, LAMBDA nearestNow :
             Heap_nearestMirror(x.heap, rayOrigin, rayDirection, mirrors, k + 1,
                                nearestNow)))

RECURSIVE Heap_nearestEntity(_, _, _, _, _, _)
\* findNearestIntersection, lines 342-349, from entity k on
Heap_nearestEntity(h, rayOrigin, rayDirection, entities, k, nearest) ==
    IF k > Len(entities) THEN [heap |-> h, hit |-> nearest]
    ELSE Then(Heap_rayTriangleIntersection(h, rayOrigin, rayDirection,
                                           entities[k].vertices, 0), LAMBDA x :
         Then(IF Heap_nearer(x.hit, nearest)
              THEN Tagged(x.hit, "entityId", entities[k].id)
              ELSE nearest, LAMBDA nearestNow :
             Heap_nearestEntity(x.heap, rayOrigin, rayDirection, entities, k + 1,
                                nearestNow)))

\* findNearestIntersection, lines 321-352
Heap_findNearestIntersection(h, rayOrigin, rayDirection, sc, ignorePlayer) ==
    Then(Heap_nearestMirror(h, rayOrigin, rayDirection, sc.mirrors, 1, None), LAMBDA ms :
    Then(IF ignorePlayer THEN ms
         ELSE Then(Heap_rayCircleIntersection(ms.heap, rayOrigin, rayDirection,
                                              sc.player.position, PLAYER_RADIUS * SUB),
                   LAMBDA pl :
                  [heap |-> pl.heap,
                   hit |-> IF Heap_nearer(pl.hit, ms.hit) THEN pl.hit ELSE ms.hit]),
         LAMBDA afterPlayer :
        Heap_nearestEntity(afterPlayer.heap, rayOrigin, rayDirection, sc.entities, 1,
                           afterPlayer.hit)))

\* reflect, lines 280-285: reflected is created, written and returned
Heap_reflect(h, direction, normal) ==
    [heap |-> Heap_create(h, << reflect(h[direction], h[normal]) >>), ref |-> Len(h) + 1]

\* traceRay, lines 371-386: what one pass of the loop leaves after a hit
Heap_bounce(h, r, currentDirection_, intersection) ==
    Then(vec2_clone(h, intersection.point), LAMBDA pushed :
    Then(Heap_reflect(pushed.heap, currentDirection_, intersection.normal),
         LAMBDA reflectedDirection :
    Then(vec2_clone(reflectedDirection.heap, intersection.point), LAMBDA nextOrigin :
        [pushed |-> pushed.heap,
         heap |-> nextOrigin.heap,
         ray |-> [r EXCEPT !.history = Append(@, pushed.ref)],
         currentOrigin |-> nextOrigin.ref,
         currentDirection |-> reflectedDirection.ref])))

RECURSIVE Heap_traceRayLoop(_, _, _, _, _, _, _)
\* traceRay, lines 366-390: the loop from one test of its condition on
Heap_traceRayLoop(h, r, currentOrigin_, currentDirection_, bounces_, hitMirror_, sc) ==
    IF ~withinBounceLimit(bounces_, MAX_BOUNCES) THEN [heap |-> h, ray |-> None]
    ELSE Then(Heap_findNearestIntersection(h, currentOrigin_, currentDirection_, sc,
                                           traceRay_ignorePlayer), LAMBDA x :
         IF IsNone(x.hit) THEN [heap |-> x.heap, ray |-> None]
         ELSE Then(<<Heap_bounce(x.heap, r, currentDirection_, x.hit), bounces_ + 1>>,
                   LAMBDA next :
              IF "mirrorId" \in DOMAIN x.hit
              THEN Heap_traceRayLoop(next[1].heap, next[1].ray, next[1].currentOrigin,
                                     next[1].currentDirection, next[2], TRUE, sc)
              ELSE IF acceptsEntity(hitMirror_, x.hit)
              THEN [heap |-> next[1].pushed,
                    ray |-> [origin |-> r.origin,
                             direction |-> r.direction,
                             history |-> next[1].ray.history,
                             entityId |-> x.hit.entityId]]
              ELSE [heap |-> next[1].pushed, ray |-> None]))

\* traceRay, lines 354-391
Heap_traceRay(h, origin, direction, sc) ==
    Then(vec2_clone(h, origin), LAMBDA o :
    Then(vec2_clone(o.heap, direction), LAMBDA d :
    Then(vec2_clone(d.heap, origin), LAMBDA first :
    Then(vec2_clone(first.heap, origin), LAMBDA co :
    Then(vec2_clone(co.heap, direction), LAMBDA cd :
    Then([origin |-> o.ref, direction |-> d.ref, history |-> <<first.ref>>], LAMBDA r :
        Heap_traceRayLoop(cd.heap, r, co.ref, cd.ref, 0, FALSE, sc)))))))

RECURSIVE Heap_castRays(_, _, _, _)
\* trace, lines 401-409, from direction i on, with the rays kept so far
Heap_castRays(h, sc, i, kept) ==
    IF i >= rayCount THEN [heap |-> h, rays |-> kept]
    ELSE Then(Heap_create(h, << DIRECTIONS[i + 1] >>), LAMBDA h0 :
         Then(Heap_traceRay(h0, sc.player.position, Len(h0), sc), LAMBDA traced :
         Then([n |-> i + 1,
               rays |-> IF ~IsNone(traced.ray) /\ Len(traced.ray.history) > 1
                        THEN Append(kept, traced.ray) ELSE kept], LAMBDA next :
             Heap_castRays(traced.heap, sc, next.n, next.rays))))

\* the scene whose points are the contents of the vec2 of sc
Heap_scene(h, sc) ==
    [player |-> [sc.player EXCEPT !.position = h[@]],
     entities |-> [k \in DOMAIN sc.entities |->
                      [sc.entities[k] EXCEPT
                          !.position = h[@],
                          !.vertices = <<h[@[1]], h[@[2]], h[@[3]]>>]],
     mirrors |-> [k \in DOMAIN sc.mirrors |->
                     [sc.mirrors[k] EXCEPT !.start = h[@], !.end = h[@]]]]

\* the ray r with the contents of its vec2, and r itself as object
Heap_ray(h, r) ==
    [origin |-> h[r.origin],
     direction |-> h[r.direction],
     history |-> [k \in DOMAIN r.history |-> h[r.history[k]]],
     entityId |-> r.entityId,
     object |-> r]

\* trace, lines 397-419: the rays returned are among the objects kept
Heap_trace(h, sc) ==
    Then(Heap_castRays(h, sc, 0, <<>>), LAMBDA cast :
    Then([k \in DOMAIN cast.rays |-> Heap_ray(cast.heap, cast.rays[k])], LAMBDA accepted :
    Then(Heap_scene(cast.heap, sc), LAMBDA contents :
    Then(selectRays(accepted, contents), LAMBDA selected :
        [heap |-> cast.heap, rays |-> [k \in DOMAIN selected |-> selected[k].object]]))))

----------------------------------------------------------------------------
(* trace and calculateVirtualImages called on a scene of vec2 objects *)

\* the vec2 of a scene at the addresses 1, 2, ...: the player's position,
\* of each entity the position and the three vertices, of each mirror the
\* start and the end
SceneHeap(sc) ==
    <<sc.player.position>>
    \o SeqConcat([k \in DOMAIN sc.entities |->
                    <<sc.entities[k].position>> \o sc.entities[k].vertices])
    \o SeqConcat([k \in DOMAIN sc.mirrors |-> <<sc.mirrors[k].start, sc.mirrors[k].end>>])

\* the scene with the address of each vec2 in the place of its content
SceneObjects(sc) ==
    [player |-> [sc.player EXCEPT !.position = 1],
     entities |-> [k \in DOMAIN sc.entities |->
                      [sc.entities[k] EXCEPT
                          !.position = 4 * k - 2,
                          !.vertices = <<4 * k - 1, 4 * k, 4 * k + 1>>]],
     mirrors |-> [k \in DOMAIN sc.mirrors |->
                     [sc.mirrors[k] EXCEPT
                         !.start = 4 * Len(sc.entities) + 2 * k,
                         !.end = 4 * Len(sc.entities) + 2 * k + 1]]]

\* the scenes of the lesson, as built and after one ADD_OBJECT
HScenes == LScenes \cup {Lesson_addEntity(sc, P(400, 250)) : sc \in LScenes}

InitSnapshot ==
    /\ \E sc \in HScenes :
          /\ heap = SceneHeap(sc)
          /\ hscene = SceneObjects(sc)
          /\ hbefore = sc
    /\ hbounds \in VBounds
    /\ hrays = <<>>
    /\ himages = <<>>
    /\ hdone = {}
    /\ RIdle /\ VIdle /\ TIdle /\ IIdle

\* withRays (part_001 lines 23-26): Ray.trace(scene)
CallTrace ==
    /\ hdone # {"off"}
    /\ "trace" \notin hdone
    /\ \E returned \in {Heap_trace(heap, hscene)} :
          /\ heap' = returned.heap
          /\ hrays' = returned.rays
    /\ hdone' = hdone \cup {"trace"}
    /\ UNCHANGED <<hscene, hbounds, hbefore, himages, rvars, vvars, tvars, ivars>>

\* withVirtualImages (part_001 lines 28-31): calculateVirtualImages(scene, bounds)
CallVirtualImages ==
    /\ hdone # {"off"}
    /\ "virtual" \notin hdone
    /\ \E returned \in {Heap_calculateVirtualImages(heap, hscene, hbounds)} :
          /\ heap' = returned.heap
          /\ himages' = returned.images
    /\ hdone' = hdone \cup {"virtual"}
    /\ UNCHANGED <<hscene, hbounds, hbefore, hrays, rvars, vvars, tvars, ivars>>

NextSnapshot == CallTrace \/ CallVirtualImages

SpecSnapshot == InitSnapshot /\ [][NextSnapshot]_vars

\* the addresses of the vec2 the scene holds
SceneRefs ==
    {hscene.player.position}
    \cup UNION {{e.position} \cup Range(e.vertices) : e \in Range(hscene.entities)}
    \cup UNION {{m.start, m.end} : m \in Range(hscene.mirrors)}

\* the addresses of the vec2 the returned rays hold
RayRefs == UNION {{r.origin, r.direction} \cup Range(r.history) : r \in Range(hrays)}

\* the addresses of the vec2 the returned images hold
ImageRefs ==
    UNION {{img.position}
           \cup (IF "mirrorData" \in DOMAIN img
                 THEN {img.mirrorData.start, img.mirrorData.end} ELSE {}) :
           img \in Range(himages)}

\* C13: trace and calculateVirtualImages leave their input as it was: after
\* either call the player's position, every entity's id, position and
\* vertices, every mirror's id, start and end and the two sequences are what
\* they were before, and no returned ray or image holds a vec2 of the scene.
C13_InputUntouched ==
    hdone # {"off"} =>
        /\ Heap_scene(heap, hscene) = hbefore
        /\ hscene = SceneObjects(hbefore)
        /\ SubSeq(heap, 1, Len(SceneHeap(hbefore))) = SceneHeap(hbefore)
        /\ SceneRefs \cap (RayRefs \cup ImageRefs) = {}

\* both were called, and returned a ray and images of all three types
C13_Witness ==
    /\ hdone = {"trace", "virtual"}
    /\ hrays # <<>>
    /\ \A type \in {"player", "entity", "mirror"} :
          \E img \in Range(himages) : img.originalType = type
    /\ Len(heap) > Len(SceneHeap(hbefore))

----------------------------------------------------------------------------
(* The bounce limit of traceRay, once more *)

\* the points of r's history between its origin and its last point
Reflections(r) == {k \in 2..(Len(r.history) - 1) : OnMirror(r.history[k])}

\* C27: with maxBounces = 10 an entity hit is accepted only after at least 1
\* and at most 9 mirror reflections: every ray that traceRay returns has
\* between 3 and 11 history points, all but the first and the last of them on
\* mirrors, and a direction whose sightline meets an entity only after the
\* 10th reflection (or later) gives no ray.
C27_NineReflectionsAtMost ==
    /\ \A r \in Range(rays) \cup Range(result) :
          /\ Len(r.history) >= 3
          /\ Len(r.history) <= MAX_BOUNCES + 1
          /\ Cardinality(Reflections(r)) = Len(r.history) - 2
    /\ "entityId" \in DOMAIN ray =>
          /\ bounces >= 1
          /\ bounces <= MAX_BOUNCES - 1
          /\ Len(ray.history) = bounces + 2
    /\ tpc = "idle" =>
          \A d \in Range(DIRECTIONS) :
              reflectionsToEntity(scene.player.position, d, scene, 0) >= MAX_BOUNCES =>
                  \A r \in Range(rays) \cup Range(result) : r.direction # d

\* trace returned a ray of 11 history points, and none for a direction whose
\* sightline meets an entity right after its 10th reflection
C27_Witness ==
    /\ tpc = "idle"
    /\ \E r \in Range(result) : Cardinality(Reflections(r)) = MAX_BOUNCES - 1
    /\ \E r \in Range(result) : Len(r.history) = MAX_BOUNCES + 1
    /\ \E d \in Range(DIRECTIONS) :
          /\ reflectionsToEntity(scene.player.position, d, scene, 0) = MAX_BOUNCES
          /\ \A r \in Range(rays) : r.direction # d


----------------------------------------------------------------------------
(* Input.Handler (scene.ts) and the onChange callback of Lesson.run *)

CLICK_RADIUS == 20

MaxActions == 6
MaxPending == 2

\* a vec2 an action holds: the handler's own state.mousePosition object,
\* which vec2.copy overwrites in place, or an object of its own
TheMousePosition == [shared |-> TRUE, value |-> <<0, 0>>]
Fresh(value) == [shared |-> FALSE, value |-> value]
\* the content of that vec2 now
Deref(o) == IF o.shared THEN mousePosition ELSE o.value

RECURSIVE findEntity(_, _, _)
\* the loop of findEntityAtPosition over this.entities, from k on
findEntity(entities, position, k) ==
    IF k > Len(entities) THEN None
    ELSE IF vec2_dist2(position, entities[k].position) <= (CLICK_RADIUS * SUB) * (CLICK_RADIUS * SUB)
         THEN entities[k]
         ELSE findEntity(entities, position, k + 1)

findEntityAtPosition(player, entities, position) ==
    IF /\ player # None
       /\ vec2_dist2(position, player.position) <= (PLAYER_RADIUS * SUB) * (PLAYER_RADIUS * SUB)
    THEN player
    ELSE findEntity(entities, position, 1)

RECURSIVE pickedIndex(_, _, _)
\* history: where in this.entities findEntityAtPosition found its entity,
\* 0 for the player or for none
pickedIndex(entities, position, k) ==
    IF k > Len(entities) THEN 0
    ELSE IF vec2_dist2(position, entities[k].position) <= (CLICK_RADIUS * SUB) * (CLICK_RADIUS * SUB)
         THEN k
         ELSE pickedIndex(entities, position, k + 1)

\* history: the object a mousedown picked and its place in the scene
Picked(player, entities, position) ==
    [entity |-> findEntityAtPosition(player, entities, position),
     index |-> IF findEntityAtPosition(player, entities, position).tag = "player" THEN 0
               ELSE pickedIndex(entities, position, 1)]

RECURSIVE find(_, _, _)
\* this.entities.find(e => e.id === entityId) || null, from k on
find(entities, entityId, k) ==
    IF k > Len(entities) THEN None
    ELSE IF entities[k].id = entityId THEN entities[k]
    ELSE find(entities, entityId, k + 1)

\* updateState on the handler fields of st; picked is history that
\* START_DRAG and dragState carry along
updateState(st, action) ==
    CASE action.type = "SELECT_ENTITY" ->
           [st EXCEPT !.selectedEntity =
               IF action.entityId = "player" THEN st.player
               ELSE find(st.entities, action.entityId, 1)]
      [] action.type = "DESELECT_ALL" -> [st EXCEPT !.selectedEntity = None]
      [] action.type = "START_DRAG" ->
           [st EXCEPT !.dragState =
               [entityId |-> action.entityId,
                entityType |-> IF action.entityId = "player" THEN "player" ELSE "entity",
                startPosition |-> Deref(action.position),
                currentPosition |-> Deref(action.position),
                isDragging |-> TRUE,
                picked |-> action.picked]]
      [] action.type = "UPDATE_DRAG" ->
           IF st.dragState # None
           THEN [st EXCEPT !.dragState.currentPosition = Deref(action.position)]
           ELSE st
      [] action.type = "END_DRAG" -> [st EXCEPT !.dragState = None]
      [] OTHER -> st

\* lesson.inputHandler.setEntities(Scene.entities(scene), scene.player); lesson = { ...lesson, scene }
setScene(st, sc) ==
    [st EXCEPT !.scene = sc, !.entities = sc.entities, !.player = sc.player]

Preset(preset) ==
    CASE preset = "one_mirror" -> singleMirror
      [] preset = "two_mirrors" -> twoMirrors
      [] preset = "three_mirrors" -> threeMirrors

\* handleAction of Lesson.run on lesson.scene and the handler's entities
handleAction(st, action) ==
    CASE action.type = "MOVE_ENTITY" ->
           setScene(st, Lesson_moveEntity(st.scene, action.entityId, Deref(action.position)))
      [] action.type = "ADD_OBJECT" -> setScene(st, Lesson_addEntity(st.scene, P(400, 250)))
      [] action.type = "REFRESH_SCENE" -> setScene(st, initialScene)
      [] action.type = "LOAD_PRESET" -> setScene(st, Preset(action.preset))
      [] OTHER -> st

RECURSIVE handleInput(_, _)
\* actions.forEach(action => { handleAction(action); updateState(action) })
handleInput(st, actions) ==
    IF actions = <<>> THEN st
    ELSE Then(updateState(handleAction(st, Head(actions)), Head(actions)),
              LAMBDA next : handleInput(next, Tail(actions)))

RECURSIVE updateStates(_, _)
\* actions.forEach(action => this.updateState(action))
updateStates(st, actions) ==
    IF actions = <<>> THEN st
    ELSE Then(updateState(st, Head(actions)),
              LAMBDA next : updateStates(next, Tail(actions)))

\* the fields handleAction and updateState read and write
Lesson_state ==
    [scene |-> scene, entities |-> handlerEntities, player |-> handlerPlayer,
     selectedEntity |-> selectedEntity, dragState |-> dragState]

Lesson_assign(st) ==
    /\ scene' = st.scene
    /\ handlerEntities' = st.entities
    /\ handlerPlayer' = st.player
    /\ selectedEntity' = st.selectedEntity
    /\ dragState' = st.dragState

Serials(actions) == SeqMap(LAMBDA a : a.n, actions)

\* this.onChange(actions), called with pendingActions already replaced by rest
onChange(actions, rest, again) ==
    /\ \E st \in {handleInput(Lesson_state, actions)} :
          IF again THEN \E st2 \in {updateStates(st, actions)} : Lesson_assign(st2)
          ELSE Lesson_assign(st)
    /\ delivered' = IF logging THEN delivered \o Serials(actions) ELSE delivered
    /\ lastBatch' = IF logging THEN actions ELSE lastBatch
    /\ pendingAtOnChange' = rest

\* addAction that puts the new actions in front of the pending ones
addAction_unshift(actions) ==
    /\ pendingActions' = actions \o pendingActions
    /\ enqueued' = IF logging THEN enqueued + Len(actions) ELSE enqueued
    /\ batchTimer' = IF actions = <<>> THEN batchTimer ELSE TRUE
    /\ destroyed' = IF actions = <<>> THEN destroyed ELSE FALSE

\* addAction for each of actions: push and scheduleBatchedOnChange
addAction(actions) ==
    /\ pendingActions' = pendingActions \o actions
    /\ enqueued' = IF logging THEN enqueued + Len(actions) ELSE enqueued
    /\ batchTimer' = IF actions = <<>> THEN batchTimer ELSE TRUE
    /\ destroyed' = IF actions = <<>> THEN destroyed ELSE FALSE

LessonFrame == UNCHANGED <<scene, handlerEntities, handlerPlayer, selectedEntity, dragState>>
LogFrame == UNCHANGED <<delivered, lastBatch, pendingAtOnChange>>
OtherFrame == UNCHANGED <<tpc, ti, ray, currentOrigin, currentDirection, bounces, hitMirror, rays, result, rvars, vvars, hvars, initialScene, logging>>

\* the serial number of the k-th action an entry point pushes
Serial(k) == IF logging THEN enqueued + k ELSE 0

\* the model lets an entry point push k actions
Room(k) ==
    IF logging THEN enqueued + k <= MaxActions
    ELSE Len(pendingActions) + k <= MaxPending

\* the positions the mouse events of the model carry
MousePositions == {P(350, 250), P(400, 250), P(396, 100)}

handleMouseDown ==
    /\ Room(2)
    /\ \E mousePos \in MousePositions :
          /\ mousePosition' = mousePos
          /\ \E entity \in {findEntityAtPosition(handlerPlayer, handlerEntities, mousePos)} :
                IF entity # None
                THEN \E entityId \in {IF entity.tag = "player" THEN "player" ELSE entity.id} :
                        addAction(<< [type |-> "SELECT_ENTITY", n |-> Serial(1),
                                      entityId |-> entityId],
                                     [type |-> "START_DRAG", n |-> Serial(2),
                                      entityId |-> entityId, position |-> Fresh(mousePos),
                                      picked |-> Picked(handlerPlayer, handlerEntities, mousePos)] >>)
                ELSE addAction(<< [type |-> "DESELECT_ALL", n |-> Serial(1)] >>)
    /\ isMouseDown' = TRUE
    /\ dropped' = dropped
    /\ LessonFrame /\ LogFrame /\ OtherFrame

handleMouseMove ==
    /\ Room(1)
    /\ \E mousePos \in MousePositions :
          /\ mousePosition' = mousePos
          /\ IF isMouseDown /\ dragState # None
             THEN addAction(<< [type |-> "UPDATE_DRAG", n |-> Serial(1),
                                position |-> Fresh(mousePos)] >>)
             ELSE addAction(<<>>)
    /\ UNCHANGED <<isMouseDown, dropped>>
    /\ LessonFrame /\ LogFrame /\ OtherFrame

handleMouseUp ==
    /\ Room(2)
    /\ isMouseDown' = FALSE
    /\ IF dragState # None
       THEN addAction(<< [type |-> "MOVE_ENTITY", n |-> Serial(1),
                          entityId |-> dragState.entityId,
                          position |-> TheMousePosition, at |-> mousePosition],
                         [type |-> "END_DRAG", n |-> Serial(2)] >>)
       ELSE addAction(<<>>)
    /\ UNCHANGED <<mousePosition, dropped>>
    /\ LessonFrame /\ LogFrame /\ OtherFrame

handleMouseLeave ==
    /\ Room(1)
    /\ isMouseDown' = FALSE
    /\ IF dragState # None
       THEN addAction(<< [type |-> "END_DRAG", n |-> Serial(1)] >>)
       ELSE addAction(<<>>)
    /\ UNCHANGED <<mousePosition, dropped>>
    /\ LessonFrame /\ LogFrame /\ OtherFrame

\* the callback scheduleBatchedOnChange hands to setTimeout
BatchTimerFires ==
    /\ batchTimer
    /\ batchTimer' = FALSE
    /\ IF Len(pendingActions) > 0
       THEN /\ pendingActions' = <<>>
            /\ onChange(pendingActions, <<>>, FALSE)
       ELSE /\ pendingActions' = pendingActions
            /\ LessonFrame /\ LogFrame
    /\ UNCHANGED <<mousePosition, isMouseDown, enqueued, dropped, destroyed>>
    /\ OtherFrame

\* addActionImmediate that pushes and leaves the delivery to the timer
addActionImmediate_batched(action) ==
    /\ Room(1)
    /\ addAction(<<action>>)
    /\ UNCHANGED <<mousePosition, isMouseDown, dropped>>
    /\ LessonFrame /\ LogFrame /\ OtherFrame

\* flushPendingActions once action was pushed: pendingActions is not empty
addActionImmediate(action) ==
    /\ Room(1)
    /\ enqueued' = IF logging THEN enqueued + 1 ELSE enqueued
    /\ batchTimer' = FALSE
    /\ pendingActions' = <<>>
    /\ onChange(Append(pendingActions, action), <<>>, TRUE)
    /\ destroyed' = FALSE
    /\ UNCHANGED <<mousePosition, isMouseDown, dropped>>
    /\ OtherFrame

addEntity ==
    /\ Len(scene.entities) < MaxEntities
    /\ addActionImmediate([type |-> "ADD_OBJECT", n |-> Serial(1)])

runSimulation ==
    addActionImmediate([type |-> "RUN_SIMULATION", n |-> Serial(1)])

refreshScene ==
    addActionImmediate([type |-> "REFRESH_SCENE", n |-> Serial(1)])

loadPreset ==
    \E preset \in {"one_mirror", "two_mirrors", "three_mirrors"} :
        addActionImmediate([type |-> "LOAD_PRESET", n |-> Serial(1), preset |-> preset])

getAndClearActions ==
    /\ pendingActions # <<>>
    /\ pendingActions' = <<>>
    /\ dropped' = IF logging THEN dropped \cup Range(Serials(pendingActions)) ELSE dropped
    /\ UNCHANGED <<mousePosition, isMouseDown, batchTimer, enqueued, destroyed>>
    /\ LessonFrame /\ LogFrame /\ OtherFrame

\* destroy clears the timer; the listeners it asks to remove are fresh
\* bound functions, so the registered ones stay
destroy ==
    /\ batchTimer
    /\ batchTimer' = FALSE
    /\ destroyed' = TRUE
    /\ UNCHANGED <<mousePosition, isMouseDown, pendingActions, enqueued, dropped>>
    /\ LessonFrame /\ LogFrame /\ OtherFrame

\* Lesson.run(initialScene) up to its first render
InitHandler ==
    /\ initialScene \in {singleMirror, twoMirrors}
    /\ scene = initialScene
    /\ handlerEntities = initialScene.entities
    /\ handlerPlayer = initialScene.player
    /\ dragState = None
    /\ selectedEntity = None
    /\ mousePosition = <<0, 0>>
    /\ pendingActions = <<>>
    /\ isMouseDown = FALSE
    /\ batchTimer = FALSE
    /\ enqueued = 0
    /\ delivered = <<>>
    /\ dropped = {}
    /\ lastBatch = <<>>
    /\ pendingAtOnChange = <<>>
    /\ destroyed = FALSE
    /\ tpc = "off"
    /\ ti = 0
    /\ ray = None
    /\ currentOrigin = <<0, 0>>
    /\ currentDirection = <<0, 0>>
    /\ bounces = 0
    /\ hitMirror = FALSE
    /\ rays = <<>>
    /\ result = <<>>
    /\ RIdle /\ VIdle /\ HIdle

NextInput ==
    \/ handleMouseDown
    \/ handleMouseMove
    \/ handleMouseUp
    \/ handleMouseLeave
    \/ BatchTimerFires
    \/ addEntity
    \/ runSimulation
    \/ refreshScene
    \/ loadPreset
    \/ getAndClearActions
    \/ destroy

\* runs that number their actions, MaxActions of them at most
InitInput == InitHandler /\ logging = TRUE

SpecInput == InitInput /\ [][NextInput]_vars

\* runs of any length, with MaxPending actions pending at most
InitDrag == InitHandler /\ logging = FALSE

SpecDrag == InitDrag /\ [][NextInput]_vars


----------------------------------------------------------------------------
(* Batched and immediate delivery *)

\* the serial numbers onChange has received, then those still pending
Accounted == delivered \o Serials(pendingActions)

\* C21: every action pushed reaches onChange at most once, and the actions
\* onChange has received followed by the pending ones are all the actions
\* pushed, in the order they were pushed, but for those getAndClearActions
\* took away; pending actions have a timer that will deliver them unless
\* destroy cancelled it; and pendingActions was empty at every call of
\* onChange by the timer or by flushPendingActions.
C21_BatchedDelivery ==
    /\ \A i, j \in DOMAIN Accounted : i < j => Accounted[i] < Accounted[j]
    /\ Range(Accounted) \cup dropped = 1..enqueued
    /\ Range(Accounted) \cap dropped = {}
    /\ pendingActions # <<>> => batchTimer \/ destroyed
    /\ pendingAtOnChange = <<>>

\* a button has delivered a batch, getAndClearActions has taken actions
\* away, and actions pushed since are pending on a timer
C21_Witness ==
    /\ Len(delivered) >= 3
    /\ \E k \in DOMAIN lastBatch : lastBatch[k].type = "RUN_SIMULATION"
    /\ dropped # {}
    /\ Len(pendingActions) >= 2
    /\ batchTimer


Buttons == {"ADD_OBJECT", "RUN_SIMULATION", "REFRESH_SCENE", "LOAD_PRESET"}

\* C22: when addEntity, runSimulation, refreshScene or loadPreset returns,
\* onChange has received one batch made of the actions that were pending,
\* in their order, followed by the button's action; pendingActions is empty
\* and no batch timer is scheduled.
C22_ButtonsImmediate ==
    [][(addEntity \/ runSimulation \/ refreshScene \/ loadPreset) =>
          /\ lastBatch' # <<>>
          /\ Serials(lastBatch') = Serials(pendingActions) \o <<enqueued + 1>>
          /\ lastBatch'[Len(lastBatch')].type \in Buttons
          /\ delivered' = delivered \o Serials(lastBatch')
          /\ pendingActions' = <<>>
          /\ ~batchTimer']_vars

\* a button's action arrived behind the mouse actions that were pending
C22_Witness ==
    /\ Len(lastBatch) >= 3
    /\ lastBatch[1].type = "SELECT_ENTITY"
    /\ lastBatch[Len(lastBatch)].type = "ADD_OBJECT"
    /\ Len(scene.entities) = Len(initialScene.entities) + 1
    /\ dragState # None
    /\ pendingActions = <<>>
    /\ ~batchTimer


----------------------------------------------------------------------------
(* Drags *)

\* C23: whenever the mouse button is up and no action is pending,
\* dragState is null.
C23_DragEndsWithPress ==
    (~isMouseDown /\ pendingActions = <<>>) => dragState = None

MoveEntities(actions) == SelectSeq(actions, LAMBDA a : a.type = "MOVE_ENTITY")

\* the timer delivers a batch whose one MOVE_ENTITY, made by a mouseup at
\* the position the cursor still has, ends the drag of an object that is
\* still where the mousedown picked it
CompletesDrag ==
    /\ BatchTimerFires
    /\ Len(MoveEntities(pendingActions)) = 1
    /\ MoveEntities(pendingActions)[1].at = mousePosition
    /\ dragState # None
    /\ dragState.entityId = MoveEntities(pendingActions)[1].entityId
    /\ IF dragState.picked.index = 0
       THEN scene.player = dragState.picked.entity
       ELSE /\ dragState.picked.index <= Len(scene.entities)
            /\ scene.entities[dragState.picked.index] = dragState.picked.entity

\* the timer delivers a batch whose one MOVE_ENTITY names no entity
MovesNothing ==
    /\ BatchTimerFires
    /\ Len(MoveEntities(pendingActions)) = 1
    /\ MoveEntities(pendingActions)[1].entityId # "player"
    /\ findIndex(scene.entities, MoveEntities(pendingActions)[1].entityId, 1) = 0

\* C24: a completed drag of X released at p puts X at p with its vertices
\* recomputed from p and leaves the positions of the other entities, the
\* player and the mirrors as they were; a MOVE_ENTITY whose id matches no
\* entity leaves the scene unchanged.
C24_DragMovesPicked ==
    [][/\ CompletesDrag =>
            /\ scene'.mirrors = scene.mirrors
            /\ Len(scene'.entities) = Len(scene.entities)
            /\ scene'.player.position =
                  IF dragState.picked.index = 0 THEN mousePosition
                  ELSE scene.player.position
            /\ \A j \in DOMAIN scene.entities :
                  IF j = dragState.picked.index
                  THEN /\ scene'.entities[j].position = mousePosition
                       /\ scene'.entities[j].vertices =
                             Scene_entity(mousePosition, "").vertices
                  ELSE scene'.entities[j].position = scene.entities[j].position
       /\ MovesNothing => scene' = scene]_vars


----------------------------------------------------------------------------
(* Selection *)

\* C25: whenever no action is pending and selectedEntity is a non-player
\* entity, lesson.scene holds an entity with the id of selectedEntity.
C25_SelectionInScene ==
    (/\ pendingActions = <<>>
     /\ selectedEntity # None
     /\ selectedEntity.tag = "entity")
        => \E e \in Range(scene.entities) : e.id = selectedEntity.id


----------------------------------------------------------------------------
(* The position a mouseup hands over *)

\* the timer delivers a batch whose one MOVE_ENTITY names an object of the scene
DeliversMove ==
    /\ BatchTimerFires
    /\ Len(MoveEntities(pendingActions)) = 1
    /\ \/ MoveEntities(pendingActions)[1].entityId = "player"
       \/ findIndex(scene.entities, MoveEntities(pendingActions)[1].entityId, 1) # 0

\* C26: the object a delivered MOVE_ENTITY moves ends where the cursor was
\* at the mouseup that made the action, whatever mousemove events were
\* handled before the timer fired.
C26_MoveCarriesMouseUp ==
    [][DeliversMove =>
          IF MoveEntities(pendingActions)[1].entityId = "player"
          THEN scene'.player.position = MoveEntities(pendingActions)[1].at
          ELSE scene'.entities[findIndex(scene.entities,
                                         MoveEntities(pendingActions)[1].entityId, 1)].position
                  = MoveEntities(pendingActions)[1].at]_vars

============================================================================
